---- MODULE Spec2Model ----
(***************************************************************************)
(* Model of the command surface of src/api.py (Dokploy API tool).          *)
(*                                                                         *)
(* One behaviour of the model is one run of one command: the command line  *)
(* is fixed in Init, the remote service answers each request with any      *)
(* status of StatusCodes or with a transport error, and the run ends with  *)
(* an exit status.  The wire (requests issued, responses received, the     *)
(* suspensions of time.sleep) is recorded in `log`.                        *)
(***************************************************************************)
EXTENDS Integers, Sequences, FiniteSets, TLC

(***************************************************************************)
(* Bounds of the model.                                                    *)
(***************************************************************************)
\* longest identifier list given to batch-delete
MaxIds == 2

\* identifiers the command line draws from (two, so that a list can repeat one)
ResourceIds == {"a", "b"}

\* values of --delay, in tenths of a second (negative, zero, positive)
Delays == {-1, 0, 1}

\* resolved API key: missing (empty) or present
ApiKeys == {"", "key"}

(***************************************************************************)
(* The remote service.                                                     *)
(***************************************************************************)
\* requests.exceptions.RequestException raised by the call: no HTTP status
TransportError == 0

\* HTTP statuses the remote may answer with: the success status the handlers
\* test for, another 2xx status, not-found, and another failure status
StatusCodes == {200, 204, 404, 500}

\* what one call to requests.get / requests.post can produce
Outcomes == StatusCodes \cup {TransportError}

\* no response received yet
NoStatus == -1

(***************************************************************************)
(* The command surface.                                                    *)
(***************************************************************************)
\* commands whose handler issues exactly one request
SimpleCommands ==
    {"create", "get", "update", "list", "query",
     "domains", "deployments", "deploy", "redeploy"}

Commands == SimpleCommands \cup {"delete", "batch-delete"}

\* the handlers that call sys.exit(1) in their non-200 branch
ExitsOnErrorResponse == {"domains", "deployments", "deploy", "redeploy"}

\* `for operation in ["remove", "delete"]`
DeleteOperations == <<"remove", "delete">>

\* endpoint suffix of the single request of a simple command
OperationSuffix(c) ==
    CASE c = "create" -> "create"
      [] c = "get" -> "one"
      [] c = "update" -> "update"
      [] c = "list" -> "all"
      [] c = "query" -> "all"
      [] c = "domains" -> "byApplicationId"
      [] c = "deployments" -> "all"
      [] c = "deploy" -> "deploy"
      [] c = "redeploy" -> "redeploy"

\* `response.status_code == 200`: the only status the handlers take as success
IsSuccessStatus(s) == s = 200

(***************************************************************************)
(* State.                                                                  *)
(***************************************************************************)
VARIABLES
    cmd,            \* the command invoked
    api_key,        \* api_key or config["api_key"]
    resource_ids,   \* identifiers of the command line (one for delete)
    delay,          \* --delay of batch-delete
    pc,             \* position of the handler
    idx,            \* position in resource_ids (enumerate(resource_ids, 1))
    operation,      \* index into DeleteOperations of the inner loop
    deleted,        \* batch_delete: the flag `deleted` of the current item
    success_count,
    failed_count,
    failed_ids,
    json_ok,        \* whether the body of the last response parses as JSON
    log,            \* wire history: requests, responses, sleeps
    exit_code,      \* -1 while running, then the exit status
    fn,             \* library function under call ("none" in a command run)
    args,           \* its arguments
    ret,            \* its result
    returned        \* whether the call has returned or raised

\* state of a call of a library function
libvars == <<fn, args, ret, returned>>

vars == <<cmd, api_key, resource_ids, delay, pc, idx, operation, deleted,
          success_count, failed_count, failed_ids, json_ok, log, exit_code,
          fn, args, ret, returned>>

Running == -1

\* non-empty identifier lists up to MaxIds; identifiers are opaque strings that
\* the handlers only compare with each other, so the first one is named "a"
IdLists == {l \in UNION {[1..n -> ResourceIds] : n \in 1..MaxIds} : l[1] = "a"}

Request(i, op) == [kind |-> "request", idx |-> i, op |-> op, status |-> NoStatus]
Response(i, op, s) == [kind |-> "response", idx |-> i, op |-> op, status |-> s]
Suspension(i) == [kind |-> "sleep", idx |-> i, op |-> "", status |-> NoStatus]

Init ==
    /\ cmd \in Commands
    /\ api_key \in ApiKeys
    /\ resource_ids \in IdLists
    /\ (cmd # "batch-delete" => Len(resource_ids) = 1)
    /\ delay \in Delays
    /\ (cmd # "batch-delete" => delay = 0)
    /\ pc = "start"
    /\ idx = 1
    /\ operation = 1
    /\ deleted = FALSE
    /\ success_count = 0
    /\ failed_count = 0
    /\ failed_ids = <<>>
    /\ json_ok = TRUE
    /\ log = <<>>
    /\ exit_code = Running
    /\ fn = "none"
    /\ args = <<>>
    /\ ret = <<>>
    /\ returned = FALSE

(***************************************************************************)
(* Every handler: the API-key check that precedes any request.             *)
(***************************************************************************)
\* `if not api_key: ... sys.exit(1)`
MissingKey ==
    /\ UNCHANGED libvars
    /\ pc = "start"
    /\ api_key = ""
    /\ pc' = "done"
    /\ exit_code' = 1
    /\ UNCHANGED <<cmd, api_key, resource_ids, delay, idx, operation, deleted,
                   success_count, failed_count, failed_ids, json_ok, log>>

(***************************************************************************)
(* Simple commands: create, get, update, list, query, domains,             *)
(* deployments, deploy, redeploy.                                          *)
(***************************************************************************)
\* exit status of a simple command after its single call returned or raised
CommandExit(c, s, j) ==
    IF s = TransportError THEN 1        \* except RequestException: sys.exit(1)
    ELSE IF IsSuccessStatus(s)
         THEN (IF j THEN 0 ELSE 1)      \* response.json() raises on a bad body
         ELSE (IF c \in ExitsOnErrorResponse THEN 1 ELSE 0)

\* variant: the handler issues its request without the API-key check
command_Request_NoKeyCheck ==
    /\ UNCHANGED libvars
    /\ pc = "start"
    /\ cmd \in SimpleCommands
    /\ log' = Append(log, Request(idx, OperationSuffix(cmd)))
    /\ pc' = "waiting"
    /\ UNCHANGED <<cmd, api_key, resource_ids, delay, idx, operation, deleted,
                   success_count, failed_count, failed_ids, json_ok, exit_code>>

command_Request ==
    /\ UNCHANGED libvars
    /\ pc = "start"
    /\ api_key # ""
    /\ cmd \in SimpleCommands
    /\ log' = Append(log, Request(idx, OperationSuffix(cmd)))
    /\ pc' = "waiting"
    /\ UNCHANGED <<cmd, api_key, resource_ids, delay, idx, operation, deleted,
                   success_count, failed_count, failed_ids, json_ok, exit_code>>

command_Response(s, j) ==
    /\ UNCHANGED libvars
    /\ pc = "waiting"
    /\ cmd \in SimpleCommands
    /\ log' = Append(log, Response(idx, OperationSuffix(cmd), s))
    /\ json_ok' = j
    /\ exit_code' = CommandExit(cmd, s, j)
    /\ pc' = "done"
    /\ UNCHANGED <<cmd, api_key, resource_ids, delay, idx, operation, deleted,
                   success_count, failed_count, failed_ids>>

(***************************************************************************)
(* delete: tries .remove, then .delete.                                    *)
(***************************************************************************)
\* variant: falls back to .delete only when .remove answers 404
DeleteStep_FallbackOn404Only(op, s) ==
    IF s = TransportError
    THEN "exit"
    ELSE IF IsSuccessStatus(s) THEN "return"
    ELSE IF s = 404 /\ op = "remove" THEN "continue"
    ELSE "exit"

\* variant: a success of the fallback attempt is not taken as success
DeleteStep_SuccessOnRemoveOnly(op, s) ==
    IF s = TransportError
    THEN (IF op = "remove" THEN "continue" ELSE "exit")
    ELSE IF IsSuccessStatus(s) /\ op = "remove" THEN "return"
    ELSE IF op = "remove" THEN "continue"
    ELSE "exit"

\* one pass of `for operation in ["remove", "delete"]` of delete:
\* "return" (success), "continue" (next operation) or "exit" (sys.exit(1))
DeleteStep(op, s) ==
    IF s = TransportError
    THEN (IF op = "remove" THEN "continue" ELSE "exit")
    ELSE IF IsSuccessStatus(s) THEN "return"
    ELSE IF s = 404 /\ op = "remove" THEN "continue"
    ELSE IF op = "remove" THEN "continue"
    ELSE "exit"

delete_Request ==
    /\ UNCHANGED libvars
    /\ pc \in {"start", "request"}
    /\ api_key # ""
    /\ cmd = "delete"
    /\ log' = Append(log, Request(idx, DeleteOperations[operation]))
    /\ pc' = "waiting"
    /\ UNCHANGED <<cmd, api_key, resource_ids, delay, idx, operation, deleted,
                   success_count, failed_count, failed_ids, json_ok, exit_code>>

\* variant: a body that is not JSON is handled like a failed request
delete_Response_DecodeFailureFails(s, j) ==
    /\ UNCHANGED libvars
    /\ pc = "waiting"
    /\ cmd = "delete"
    /\ LET op == DeleteOperations[operation]
           step == IF s # TransportError /\ IsSuccessStatus(s) /\ ~j
                   THEN DeleteStep(op, TransportError)
                   ELSE DeleteStep(op, s)
       IN /\ log' = Append(log, Response(idx, op, s))
          /\ json_ok' = j
          /\ IF step = "return"
             THEN /\ exit_code' = 0
                  /\ pc' = "done"
                  /\ UNCHANGED operation
             ELSE IF step = "continue" /\ operation < Len(DeleteOperations)
             THEN /\ operation' = operation + 1
                  /\ pc' = "request"
                  /\ UNCHANGED exit_code
             ELSE \* sys.exit(1) in the loop, or the one after the loop
                  /\ exit_code' = 1
                  /\ pc' = "done"
                  /\ UNCHANGED operation
    /\ UNCHANGED <<cmd, api_key, resource_ids, delay, idx, deleted,
                   success_count, failed_count, failed_ids>>

delete_Response(s, j) ==
    /\ UNCHANGED libvars
    /\ pc = "waiting"
    /\ cmd = "delete"
    /\ LET op == DeleteOperations[operation]
           step == DeleteStep(op, s)
       IN /\ log' = Append(log, Response(idx, op, s))
          /\ json_ok' = j
          /\ IF step = "return"
             THEN /\ exit_code' = 0
                  /\ pc' = "done"
                  /\ UNCHANGED operation
             ELSE IF step = "continue" /\ operation < Len(DeleteOperations)
             THEN /\ operation' = operation + 1
                  /\ pc' = "request"
                  /\ UNCHANGED exit_code
             ELSE \* sys.exit(1) in the loop, or the one after the loop
                  /\ exit_code' = 1
                  /\ pc' = "done"
                  /\ UNCHANGED operation
    /\ UNCHANGED <<cmd, api_key, resource_ids, delay, idx, deleted,
                   success_count, failed_count, failed_ids>>

(***************************************************************************)
(* batch-delete: the delete procedure over every identifier, in order.     *)
(***************************************************************************)
\* variant: the identifier is never found in the list
InSeq_Never(x, seq) == FALSE

\* `resource_id not in failed_ids` is the negation of this
InSeq(x, seq) == \E k \in 1..Len(seq) : seq[k] = x

\* variant: the inner loop goes on to .delete whatever .remove answered
BatchStep_AlwaysFallsBack(op, s) ==
    IF op = "remove" THEN "continue"
    ELSE IF s # TransportError /\ IsSuccessStatus(s) THEN "success"
    ELSE "failed"

\* variant: a failed .delete attempt is not counted inside the loop and is
\* left to the check `resource_id not in failed_ids` after the loop
BatchStep_CountsAfterLoop(op, s) ==
    IF s = TransportError
    THEN "continue"
    ELSE IF IsSuccessStatus(s) THEN "success"
    ELSE "continue"

\* variant: a transport error on .remove ends the item as failed
BatchStep_NoFallbackOnError(op, s) ==
    IF s = TransportError
    THEN "failed"
    ELSE IF IsSuccessStatus(s) THEN "success"
    ELSE IF s = 404 /\ op = "remove" THEN "continue"
    ELSE IF op = "delete" THEN "failed"
    ELSE "continue"

\* one pass of the inner loop of batch_delete:
\* "success" (count, break), "continue" (next operation, also when no branch
\* of the if/elif chain applies) or "failed" (count, record, break)
BatchStep(op, s) ==
    IF s = TransportError
    THEN (IF op = "remove" THEN "continue" ELSE "failed")
    ELSE IF IsSuccessStatus(s) THEN "success"
    ELSE IF s = 404 /\ op = "remove" THEN "continue"
    ELSE IF op = "delete" THEN "failed"
    ELSE "continue"

\* variant: the outer loop stops one identifier short
HasNext_StopsBeforeLast(i, total) == i < total - 1

\* `for idx, resource_id in enumerate(resource_ids, 1)`: another item follows
HasNext(i, total) == i < total

\* variant: sleeps after every item, the last one too
SleepsAfter_EveryItem(i, total, d) == d > 0

\* `if idx < total and delay > 0: time.sleep(delay)`
SleepsAfter(i, total, d) == i < total /\ d > 0

\* variant: the summary never calls sys.exit(1)
BatchExit_AlwaysZero(failed) == 0

\* `if failed_ids: ... sys.exit(1)`, else the handler returns
BatchExit(failed) == IF failed # <<>> THEN 1 ELSE 0

\* variant: the next request is issued without waiting for the response
batch_delete_Request_NoWait ==
    /\ UNCHANGED libvars
    /\ pc \in {"start", "request", "waiting"}
    /\ api_key # ""
    /\ cmd = "batch-delete"
    /\ log' = Append(log, Request(idx, DeleteOperations[operation]))
    /\ pc' = "waiting"
    /\ UNCHANGED <<cmd, api_key, resource_ids, delay, idx, operation, deleted,
                   success_count, failed_count, failed_ids, json_ok, exit_code>>

batch_delete_Request ==
    /\ UNCHANGED libvars
    /\ pc \in {"start", "request"}
    /\ api_key # ""
    /\ cmd = "batch-delete"
    /\ log' = Append(log, Request(idx, DeleteOperations[operation]))
    /\ pc' = "waiting"
    /\ UNCHANGED <<cmd, api_key, resource_ids, delay, idx, operation, deleted,
                   success_count, failed_count, failed_ids, json_ok, exit_code>>

\* the response of one attempt, up to the next blocking call of the handler
batch_delete_Response(s) ==
    /\ UNCHANGED libvars
    /\ pc = "waiting"
    /\ cmd = "batch-delete"
    /\ LET op == DeleteOperations[operation]
           resource_id == resource_ids[idx]
           total == Len(resource_ids)
           step == BatchStep(op, s)
           loopEnds == step # "continue" \/ operation = Len(DeleteOperations)
           \* state at the end of the inner loop
           deleted1 == step = "success"
           success1 == IF step = "success" THEN success_count + 1 ELSE success_count
           failed1 == IF step = "failed" THEN failed_count + 1 ELSE failed_count
           ids1 == IF step = "failed" THEN Append(failed_ids, resource_id) ELSE failed_ids
           \* `if not deleted and resource_id not in failed_ids`
           late == ~deleted1 /\ ~InSeq(resource_id, ids1)
       IN /\ log' = Append(log, Response(idx, op, s))
          /\ IF ~loopEnds
             THEN /\ operation' = operation + 1
                  /\ pc' = "request"
                  /\ UNCHANGED <<idx, deleted, success_count, failed_count, failed_ids>>
             ELSE /\ success_count' = success1
                  /\ failed_count' = IF late THEN failed1 + 1 ELSE failed1
                  /\ failed_ids' = IF late THEN Append(ids1, resource_id) ELSE ids1
                  /\ IF SleepsAfter(idx, total, delay)
                     THEN /\ pc' = "sleep"
                          /\ deleted' = deleted1
                          /\ UNCHANGED <<idx, operation>>
                     ELSE IF HasNext(idx, total)
                     THEN /\ pc' = "request"
                          /\ idx' = idx + 1
                          /\ operation' = 1
                          /\ deleted' = FALSE
                     ELSE /\ pc' = "summary"
                          /\ deleted' = deleted1
                          /\ UNCHANGED <<idx, operation>>
    /\ UNCHANGED <<cmd, api_key, resource_ids, delay, json_ok, exit_code>>

\* time.sleep(delay) returns and the outer loop goes on
batch_delete_Sleep ==
    /\ UNCHANGED libvars
    /\ pc = "sleep"
    /\ cmd = "batch-delete"
    /\ log' = Append(log, Suspension(idx))
    /\ IF HasNext(idx, Len(resource_ids))
       THEN /\ pc' = "request"
            /\ idx' = idx + 1
            /\ operation' = 1
            /\ deleted' = FALSE
       ELSE /\ pc' = "summary"
            /\ UNCHANGED <<idx, operation, deleted>>
    /\ UNCHANGED <<cmd, api_key, resource_ids, delay, success_count,
                   failed_count, failed_ids, json_ok, exit_code>>

\* the summary table and the exit status
batch_delete_Summary ==
    /\ UNCHANGED libvars
    /\ pc = "summary"
    /\ cmd = "batch-delete"
    /\ exit_code' = BatchExit(failed_ids)
    /\ pc' = "done"
    /\ UNCHANGED <<cmd, api_key, resource_ids, delay, idx, operation, deleted,
                   success_count, failed_count, failed_ids, json_ok, log>>

(***************************************************************************)
(* Specification.                                                          *)
(***************************************************************************)
Next ==
    \/ MissingKey
    \/ command_Request
    \/ \E s \in Outcomes, j \in BOOLEAN :
          /\ (s = TransportError => j = FALSE)
          /\ command_Response(s, j)
    \/ delete_Request
    \/ \E s \in Outcomes, j \in BOOLEAN :
          /\ (s = TransportError => j = FALSE)
          /\ delete_Response(s, j)
    \/ batch_delete_Request
    \/ \E s \in Outcomes : batch_delete_Response(s)
    \/ batch_delete_Sleep
    \/ batch_delete_Summary

Spec == Init /\ [][Next]_vars

\* the handler is never suspended forever: every call returns or raises
FairSpec == Spec /\ WF_vars(Next)

(***************************************************************************)
(* Reading the wire history.                                               *)
(***************************************************************************)
LogIndex == 1..Len(log)
Positions == 1..Len(resource_ids)
IsDeleteFamily == cmd \in {"delete", "batch-delete"}

IsRequest(p, i, op) == log[p].kind = "request" /\ log[p].idx = i /\ log[p].op = op
IsResponse(p, i, op) == log[p].kind = "response" /\ log[p].idx = i /\ log[p].op = op

\* endpoint suffixes of the requests issued for position i, in order
RequestOps(i) ==
    LET reqs == SelectSeq(log, LAMBDA e : e.kind = "request" /\ e.idx = i)
    IN [k \in 1..Len(reqs) |-> reqs[k].op]

\* the attempt `op` for position i was answered, and not with a success
AttemptFailed(i, op) ==
    \E p \in LogIndex : IsResponse(p, i, op) /\ ~IsSuccessStatus(log[p].status)

\* the attempt `op` for position i was answered with a success
AttemptSucceeded(i, op) ==
    \E p \in LogIndex : IsResponse(p, i, op) /\ IsSuccessStatus(log[p].status)

\* position i needs no further request
ItemFinished(i) ==
    \/ AttemptSucceeded(i, "remove")
    \/ AttemptSucceeded(i, "delete")
    \/ AttemptFailed(i, "delete")

ItemDeleted(i) == AttemptSucceeded(i, "remove") \/ AttemptSucceeded(i, "delete")

\* the handler has moved past position i
ItemLeft(i) == i < idx \/ pc \in {"sleep", "summary", "done"}

(***************************************************************************)
(* C1: in delete and in every item of batch-delete the first request goes  *)
(* to .remove, a request to .delete is issued only after the .remove       *)
(* attempt for the same identifier was answered with a failure, and no     *)
(* identifier gets more than two requests (no third suffix, no repeated    *)
(* suffix).                                                                *)
(***************************************************************************)
C1_RemoveThenDeleteAtMostTwo ==
    IsDeleteFamily =>
        \A i \in Positions :
            /\ RequestOps(i) \in {<<>>, <<"remove">>, <<"remove", "delete">>}
            /\ \A p \in LogIndex :
                  IsRequest(p, i, "delete") =>
                      \E q \in 1..(p - 1) :
                          /\ IsResponse(q, i, "remove")
                          /\ ~IsSuccessStatus(log[q].status)

\* a finished batch with one identifier deleted by .remove and one that
\* needed the .delete attempt
C1_Witness ==
    /\ cmd = "batch-delete"
    /\ pc = "done"
    /\ \E i, k \in Positions :
          /\ RequestOps(i) = <<"remove">>
          /\ RequestOps(k) = <<"remove", "delete">>

(***************************************************************************)
(* C2: whenever the .remove attempt does not succeed (404, another failure *)
(* status, or a transport error), exactly one .delete attempt follows for  *)
(* the same identifier, in delete and in batch-delete.                     *)
(***************************************************************************)
C2_FailedRemoveFallsBackOnce ==
    IsDeleteFamily =>
        \A i \in Positions :
            (AttemptFailed(i, "remove") /\ ItemLeft(i)) =>
                /\ Cardinality({p \in LogIndex : IsRequest(p, i, "delete")}) = 1
                /\ Cardinality({p \in LogIndex : IsResponse(p, i, "delete")}) = 1

\* delete fell back after a status other than 404; batch-delete fell back
\* after a transport error
C2_Witness ==
    /\ pc = "done"
    /\ IsDeleteFamily
    /\ \E p \in LogIndex :
          /\ IsResponse(p, 1, "remove")
          /\ log[p].status \in {500, TransportError}
    /\ \E p \in LogIndex : IsResponse(p, 1, "delete")

(***************************************************************************)
(* C3: the delete command succeeds (exit status 0) if and only if .remove  *)
(* succeeds, or .remove fails and .delete succeeds: with a remote that     *)
(* implements only .remove it succeeds by the first attempt, with one that *)
(* implements only .delete (remove answers 404) by the second, and with    *)
(* one that implements neither it exits non-zero.  An attempt succeeds     *)
(* when it is answered with the success status 200.                        *)
(***************************************************************************)
C3_DeleteSucceedsIffAnAttemptDoes ==
    (cmd = "delete" /\ pc = "done" /\ api_key # "") =>
        /\ exit_code = 0 <=>
              \/ AttemptSucceeded(1, "remove")
              \/ AttemptFailed(1, "remove") /\ AttemptSucceeded(1, "delete")
        /\ exit_code # 0 <=>
              AttemptFailed(1, "remove") /\ AttemptFailed(1, "delete")
        /\ AttemptSucceeded(1, "remove") => Len(log) = 2
        /\ exit_code \in {0, 1}

\* remove answers 404 (not implemented), delete answers 200
C3_Witness ==
    /\ cmd = "delete"
    /\ pc = "done"
    /\ exit_code = 0
    /\ \E p \in LogIndex : IsResponse(p, 1, "remove") /\ log[p].status = 404
    /\ AttemptSucceeded(1, "delete")

(***************************************************************************)
(* C4: any 2xx status (201, 204, not only 200) answered by .remove ends    *)
(* the deletion as a success at once: no .delete attempt follows and no    *)
(* failure is recorded.                                                    *)
(***************************************************************************)
Is2xx(s) == s \in 200..299

C4_Any2xxOnRemoveEndsDeletion ==
    IsDeleteFamily =>
        \A i \in Positions :
            (\E p \in LogIndex : IsResponse(p, i, "remove") /\ Is2xx(log[p].status)) =>
                /\ ~\E q \in LogIndex : IsRequest(q, i, "delete")
                /\ (cmd = "delete" => exit_code # 1)
                /\ (cmd = "batch-delete" =>
                       failed_count <= Cardinality({k \in Positions :
                           ~\E q \in LogIndex :
                               IsResponse(q, k, "remove") /\ Is2xx(log[q].status)}))

(***************************************************************************)
(* C5: batch-delete never aborts early: whatever fails at whatever         *)
(* position, every identifier of the list eventually has its deletion      *)
(* attempted, and the summary is reached only after the last identifier    *)
(* was processed.                                                          *)
(***************************************************************************)
IsBatchRun == cmd = "batch-delete" /\ api_key # ""

AllItemsProcessed ==
    \A i \in Positions : RequestOps(i) # <<>> /\ ItemFinished(i)

C5_BatchNeverAbortsEarly ==
    /\ [](IsBatchRun /\ pc \in {"summary", "done"} => AllItemsProcessed)
    /\ (IsBatchRun ~> (pc = "done" /\ AllItemsProcessed))

\* the first identifier failed by a transport error on both attempts and the
\* batch still went on to the last one
C5_Witness ==
    /\ IsBatchRun
    /\ pc = "done"
    /\ Len(resource_ids) >= 2
    /\ \E p \in LogIndex :
          IsResponse(p, 1, "delete") /\ log[p].status = TransportError
    /\ ItemFinished(Len(resource_ids))

(***************************************************************************)
(* C6: in batch-delete the counters always sum to the number of items      *)
(* processed so far, failed_ids has failed_count entries and lists the     *)
(* identifiers whose deletion failed in input order (also when the input   *)
(* repeats an identifier); at the end the counters sum to N, and to        *)
(* (N, 0) when every deletion succeeded.                                   *)
(***************************************************************************)
RECURSIVE FailedUpTo(_)
\* identifiers of the processed positions 1..n that were not deleted
FailedUpTo(n) ==
    IF n = 0 THEN <<>>
    ELSE IF ItemFinished(n) /\ ~ItemDeleted(n)
         THEN Append(FailedUpTo(n - 1), resource_ids[n])
         ELSE FailedUpTo(n - 1)

C6_BatchCountersAndFailedIds ==
    cmd = "batch-delete" =>
        LET N == Len(resource_ids)
            processed == Cardinality({i \in Positions : ItemFinished(i)})
        IN /\ success_count + failed_count = processed
           /\ success_count = Cardinality({i \in Positions : ItemDeleted(i)})
           /\ Len(failed_ids) = failed_count
           /\ failed_ids = FailedUpTo(N)
           /\ (pc = "done" /\ api_key # "") => success_count + failed_count = N
           /\ (pc = "done" /\ api_key # "" /\ \A i \in Positions : ItemDeleted(i))
                 => success_count = N /\ failed_count = 0

\* the same identifier given twice, and both deletions failed
C6_Witness ==
    /\ cmd = "batch-delete"
    /\ pc = "done"
    /\ Len(resource_ids) >= 2
    /\ resource_ids[1] = resource_ids[2]
    /\ failed_ids = <<resource_ids[1], resource_ids[2]>>

(***************************************************************************)
(* C7: batch-delete ends with a non-zero exit status if and only if at     *)
(* least one identifier failed to delete, and with exit status 0 exactly   *)
(* when every identifier was deleted.                                      *)
(***************************************************************************)
C7_BatchExitStatus ==
    (IsBatchRun /\ pc = "done") =>
        /\ exit_code \in {0, 1}
        /\ exit_code # 0 <=> \E i \in Positions : ~ItemDeleted(i)
        /\ exit_code = 0 <=> \A i \in Positions : ItemDeleted(i)

\* one identifier deleted, another failed: exit status 1
C7_Witness ==
    /\ IsBatchRun
    /\ pc = "done"
    /\ exit_code = 1
    /\ \E i, k \in Positions : ItemDeleted(i) /\ ~ItemDeleted(k)

(***************************************************************************)
(* C8: batch-delete works through the identifiers in input order, one at   *)
(* a time: every request for position k is answered before the first       *)
(* request for position k+1 is issued, and never are two requests          *)
(* outstanding.                                                            *)
(***************************************************************************)
Outstanding ==
    Cardinality({p \in LogIndex : log[p].kind = "request"})
    - Cardinality({p \in LogIndex : log[p].kind = "response"})

C8_BatchSequentialInOrder ==
    cmd = "batch-delete" =>
        /\ Outstanding \in {0, 1}
        /\ \A p, q \in LogIndex : p < q => log[p].idx <= log[q].idx
        /\ \A p \in LogIndex :
              log[p].kind = "request" =>
                  /\ p < Len(log) => IsResponse(p + 1, log[p].idx, log[p].op)
                  /\ log[p].idx > 1 => ItemFinished(log[p].idx - 1)

\* a request for the second identifier is outstanding after the first
\* identifier took both attempts
C8_Witness ==
    /\ cmd = "batch-delete"
    /\ pc = "waiting"
    /\ idx = 2
    /\ Outstanding = 1
    /\ RequestOps(1) = <<"remove", "delete">>

(***************************************************************************)
(* C9: with a positive delay batch-delete suspends exactly once after each *)
(* item except the last (N-1 suspensions), after all attempts of that item *)
(* and before the first request of the next; never after the last item;    *)
(* and with a delay of zero or less it never suspends.                     *)
(***************************************************************************)
Suspensions == {p \in LogIndex : log[p].kind = "sleep"}

C9_OneSuspensionBetweenItems ==
    cmd = "batch-delete" =>
        LET N == Len(resource_ids)
        IN /\ delay <= 0 => Suspensions = {}
           /\ \A p \in Suspensions :
                 /\ delay > 0
                 /\ log[p].idx < N
                 /\ ItemFinished(log[p].idx)
                 /\ \A q \in LogIndex \ {p} :
                       /\ log[q].idx = log[p].idx => q < p /\ log[q].kind # "sleep"
                       /\ log[q].idx > log[p].idx => q > p
           /\ delay > 0 =>
                 \A p \in LogIndex :
                     (log[p].kind = "request" /\ log[p].idx > 1) =>
                         \E q \in Suspensions : q < p /\ log[q].idx = log[p].idx - 1
           /\ (pc = "done" /\ api_key # "" /\ delay > 0) =>
                 Cardinality(Suspensions) = N - 1

\* a finished batch of two identifiers that suspended once, in between
C9_Witness ==
    /\ cmd = "batch-delete"
    /\ pc = "done"
    /\ delay > 0
    /\ Len(resource_ids) = 2
    /\ Cardinality(Suspensions) = 1

(***************************************************************************)
(* C10: every command exits non-zero on any failure; in particular         *)
(* whenever the HTTP response has a failure status (404, 401, 500) the     *)
(* command exits non-zero, for get, list, update, create and query as for  *)
(* delete, domains, deployments, deploy and redeploy.                      *)
(***************************************************************************)
C10_HttpFailureExitsNonZero ==
    (pc = "done" /\ Len(log) > 0) =>
        LET last == log[Len(log)]
        IN (last.kind = "response" /\ last.status \in {404, 401, 500})
               => exit_code # 0

(***************************************************************************)
(* C11: in every command, when no API key is resolved (missing or empty)   *)
(* the run issues no HTTP request at all and ends with a non-zero exit     *)
(* status.                                                                 *)
(***************************************************************************)
C11_NoRequestWithoutApiKey ==
    (cmd \in Commands /\ api_key = "") =>
        /\ log = <<>>
        /\ pc \in {"start", "done"}
        /\ pc = "done" => exit_code = 1

\* a command run that ended on the API-key check
C11_Witness ==
    /\ cmd \in Commands
    /\ api_key = ""
    /\ pc = "done"
    /\ exit_code = 1
    /\ log = <<>>

(***************************************************************************)
(* Library functions (src/lib/dokploy.py) and the query filter, as calls:  *)
(* LibInit draws a function and its arguments, one action applies it.      *)
(***************************************************************************)
cmdvars == <<cmd, api_key, resource_ids, delay, pc, idx, operation, deleted,
             success_count, failed_count, failed_ids, json_ok, log, exit_code>>

\* no command is running
NoCommand ==
    /\ cmd = "none"
    /\ api_key = ""
    /\ resource_ids = <<>>
    /\ delay = 0
    /\ pc = "lib"
    /\ idx = 1
    /\ operation = 1
    /\ deleted = FALSE
    /\ success_count = 0
    /\ failed_count = 0
    /\ failed_ids = <<>>
    /\ json_ok = TRUE
    /\ log = <<>>
    /\ exit_code = Running

(***************************************************************************)
(* load_config                                                             *)
(***************************************************************************)
\* a key that a source does not define
Undefined == "<undefined>"

\* Python's None
NoneValue == "<None>"

\* decouple.UndefinedValueError
UndefinedValueError == "<UndefinedValueError>"

\* the hardcoded default of BASE_URL
DefaultBaseUrl == "http://10.5.162.35:3000"

ConfigKeys == {"API_KEY", "BASE_URL"}

\* a key-value file: missing, or defining each key or not; the value a source
\* gives to a key is the name of the source
EnvFiles(name) ==
    {[exists |-> FALSE, data |-> [k \in ConfigKeys |-> Undefined]]}
    \cup {[exists |-> TRUE, data |-> d] : d \in [ConfigKeys -> {Undefined, name}]}

\* os.environ
Environs == [ConfigKeys -> {Undefined, "env"}]

\* the env_file argument (None or a path), the three files, the environment
LoadConfigArgs ==
    {[env_file |-> e, explicit |-> x, cwd |-> c, parent |-> p, environ |-> v] :
        e \in {"none", "explicit"}, x \in EnvFiles("explicit"),
        c \in EnvFiles("cwd"), p \in EnvFiles("parent"), v \in Environs}

\* variant: the repository is consulted before os.environ
ConfigGet_RepositoryFirst(environ, data, option, default) ==
    IF data[option] # Undefined THEN data[option]
    ELSE IF environ[option] # Undefined THEN environ[option]
    ELSE IF default = Undefined THEN UndefinedValueError
    ELSE default

\* variant: the default is not passed on, a missing option raises
ConfigGet_NoDefault(environ, data, option, default) ==
    IF environ[option] # Undefined THEN environ[option]
    ELSE IF data[option] # Undefined THEN data[option]
    ELSE UndefinedValueError

\* config.get(option, default=...) of decouple's Config(RepositoryEnv(file)):
\* os.environ first, then the file, then the default; raises without a default
ConfigGet(environ, data, option, default) ==
    IF environ[option] # Undefined THEN environ[option]
    ELSE IF data[option] # Undefined THEN data[option]
    ELSE IF default = Undefined THEN UndefinedValueError
    ELSE default

\* os.environ.get(option, default)
EnvironGet(environ, option, default) ==
    IF environ[option] # Undefined THEN environ[option] ELSE default

\* the file that load_config looks at
ChosenEnvFile(a) ==
    IF a.env_file = "none"
    THEN (IF a.cwd.exists THEN a.cwd ELSE a.parent)
    ELSE a.explicit

load_config(a) ==
    LET env_file == ChosenEnvFile(a)
    IN IF env_file.exists
       THEN [api_key |-> ConfigGet(a.environ, env_file.data, "API_KEY", NoneValue),
             base_url |-> ConfigGet(a.environ, env_file.data, "BASE_URL", DefaultBaseUrl)]
       ELSE [api_key |-> EnvironGet(a.environ, "API_KEY", NoneValue),
             base_url |-> EnvironGet(a.environ, "BASE_URL", DefaultBaseUrl)]

call_load_config ==
    /\ fn = "load_config"
    /\ ~returned
    /\ ret' = load_config(args)
    /\ returned' = TRUE
    /\ UNCHANGED <<fn, args>>
    /\ UNCHANGED cmdvars

(***************************************************************************)
(* Strings whose letters matter are sequences of one-character strings.    *)
(***************************************************************************)
LowerLetters ==
    <<"a", "b", "c", "d", "e", "f", "g", "h", "i", "j", "k", "l", "m",
      "n", "o", "p", "q", "r", "s", "t", "u", "v", "w", "x", "y", "z">>

UpperLetters ==
    <<"A", "B", "C", "D", "E", "F", "G", "H", "I", "J", "K", "L", "M",
      "N", "O", "P", "Q", "R", "S", "T", "U", "V", "W", "X", "Y", "Z">>

LetterIndex(letters, c) == CHOOSE i \in 1..Len(letters) : letters[i] = c

\* str.upper() and str.lower(), one character
UpperChar(c) ==
    IF \E i \in 1..Len(LowerLetters) : LowerLetters[i] = c
    THEN UpperLetters[LetterIndex(LowerLetters, c)]
    ELSE c

LowerChar(c) ==
    IF \E i \in 1..Len(UpperLetters) : UpperLetters[i] = c
    THEN LowerLetters[LetterIndex(UpperLetters, c)]
    ELSE c

\* str.upper() and str.lower()
UpperStr(str) == [i \in 1..Len(str) |-> UpperChar(str[i])]
LowerStr(str) == [i \in 1..Len(str) |-> LowerChar(str[i])]

(***************************************************************************)
(* make_api_request                                                        *)
(***************************************************************************)
GET == <<"G", "E", "T">>
POST == <<"P", "O", "S", "T">>
PUT == <<"P", "U", "T">>
PATCH == <<"P", "A", "T", "C", "H">>
DELETE == <<"D", "E", "L", "E", "T", "E">>

\* values of the `method` argument
Methods ==
    {GET, POST, PUT, PATCH, DELETE,
     <<"g", "e", "t">>, <<"P", "o", "s", "t">>, <<"p", "u", "t">>,
     <<"p", "a", "t", "c", "h">>, <<"d", "e", "l", "e", "t", "e">>,
     <<"O", "P", "T", "I", "O", "N", "S">>, <<"o", "p", "t", "i", "o", "n", "s">>,
     <<"H", "E", "A", "D">>, <<>>}

\* values of `data`: None, an empty dict, a dict with content
Bodies == {NoneValue, "{}", "{\"name\": \"x\"}"}

\* values of `params`: None or a dict
QueryParams == {NoneValue, "{\"id\": \"1\"}"}

MakeApiRequestArgs ==
    [method : Methods, api_key : {"key"}, data : Bodies, params : QueryParams]

\* variant: Content-Type is set only for a non-empty body (`if data:`)
RequestHeaders_WhenTruthy(key, data) ==
    {<<"accept", "application/json">>, <<"x-api-key", key>>}
    \cup (IF data \notin {NoneValue, "{}"}
          THEN {<<"Content-Type", "application/json">>} ELSE {})

\* the headers dict
RequestHeaders(key, data) ==
    {<<"accept", "application/json">>, <<"x-api-key", key>>}
    \cup (IF data # NoneValue THEN {<<"Content-Type", "application/json">>} ELSE {})

\* variant: a verb that is not recognised is sent as a POST
WireVerb_DefaultsToPost(m) ==
    IF m = GET THEN "GET"
    ELSE IF m = DELETE THEN "DELETE"
    ELSE "POST"

\* variant: PUT and PATCH reach the wire under their own name
WireVerb_PassThrough(m) ==
    IF m = GET THEN "GET"
    ELSE IF m = POST THEN "POST"
    ELSE IF m = PUT THEN "PUT"
    ELSE IF m = PATCH THEN "PATCH"
    ELSE IF m = DELETE THEN "DELETE"
    ELSE ""

\* the requests function that the if/elif chain calls for method.upper() = m,
\* "" when it reaches the final else
WireVerb(m) ==
    IF m = GET THEN "GET"
    ELSE IF m \in {POST, PUT, PATCH} THEN "POST"
    ELSE IF m = DELETE THEN "DELETE"
    ELSE ""

make_api_request(a) ==
    LET headers == RequestHeaders(a.api_key, a.data)
        verb == WireVerb(UpperStr(a.method))
    IN IF verb = ""
       THEN \* raise ValueError(f"Unsupported HTTP method: {method}")
            [raised |-> TRUE, error_method |-> a.method, wire |-> <<>>]
       ELSE [raised |-> FALSE, error_method |-> <<>>,
             wire |-> <<[verb |-> verb,
                         headers |-> headers,
                         params |-> IF verb = "GET" THEN a.params ELSE NoneValue,
                         json |-> IF verb = "GET" THEN NoneValue ELSE a.data]>>]

call_make_api_request ==
    /\ fn = "make_api_request"
    /\ ~returned
    /\ ret' = make_api_request(args)
    /\ returned' = TRUE
    /\ UNCHANGED <<fn, args>>
    /\ UNCHANGED cmdvars

(***************************************************************************)
(* extract_endpoints                                                       *)
(***************************************************************************)
\* most paths of a document
MaxPaths == 2

\* most keys under one path
MaxKeys == 2

\* the paths of the document are "/p1", "/p2", ...: named by their number
PathNames == 1..MaxPaths

\* `["get", "post", "put", "delete", "patch"]`
HttpMethodKeys ==
    {<<"g", "e", "t">>, <<"p", "o", "s", "t">>, <<"p", "u", "t">>,
     <<"d", "e", "l", "e", "t", "e">>, <<"p", "a", "t", "c", "h">>}

\* keys found under a path of the document
PathKeys ==
    {<<"g", "e", "t">>, <<"G", "E", "T">>, <<"p", "o", "s", "t">>,
     <<"p", "a", "r", "a", "m", "e", "t", "e", "r", "s">>}

\* the operation object under a key: complete under get, with a summary only
\* under GET, empty under the other keys
DetailsOf(key) ==
    IF key = <<"g", "e", "t">>
    THEN [summary |-> "Get resource", description |-> "Returns it",
          has_tags |-> TRUE, tags |-> <<"resource">>, operationId |-> "getResource"]
    ELSE IF key = <<"G", "E", "T">>
    THEN [summary |-> "Upper", description |-> Undefined,
          has_tags |-> FALSE, tags |-> <<>>, operationId |-> Undefined]
    ELSE [summary |-> Undefined, description |-> Undefined,
          has_tags |-> FALSE, tags |-> <<>>, operationId |-> Undefined]

\* sequences without repetition over S, up to length n (the keys of a dict)
DistinctSeqs(S, n) ==
    {q \in UNION {[1..k -> S] : k \in 0..n} :
        \A i, j \in 1..Len(q) : i # j => q[i] # q[j]}

\* the mapping under one path: keys in insertion order
PathItems ==
    {[k \in 1..Len(q) |-> [key |-> q[k], details |-> DetailsOf(q[k])]] :
        q \in DistinctSeqs(PathKeys, MaxKeys)}

\* a document whose paths are named names[k] and hold items[k], in this order
PathsDocument(names, items) ==
    [has_paths |-> TRUE,
     paths |-> [k \in 1..Len(names) |-> [path |-> names[k], methods |-> items[k]]]]

\* OpenAPI documents: without `paths`, or with paths in insertion order
OpenApiSpecs ==
    {[has_paths |-> FALSE, paths |-> <<>>]}
    \cup {PathsDocument(x[1], x[2]) :
            x \in {y \in DistinctSeqs(PathNames, MaxPaths)
                            \X UNION {[1..k -> PathItems] : k \in 0..MaxPaths} :
                        Len(y[1]) = Len(y[2])}}

\* variant: the key is compared as written
IsHttpMethod_CaseSensitive(method) == method \in HttpMethodKeys

\* `method.lower() in ["get", "post", "put", "delete", "patch"]`
IsHttpMethod(method) == LowerStr(method) \in HttpMethodKeys

\* details.get(field, default)
DetailsGet(value, default) == IF value = Undefined THEN default ELSE value

\* the endpoint dict built for one key
Endpoint(path, method, details) ==
    [path |-> path,
     method |-> UpperStr(method),
     summary |-> DetailsGet(details.summary, ""),
     description |-> DetailsGet(details.description, ""),
     tags |-> IF details.has_tags THEN details.tags ELSE <<>>,
     operationId |-> DetailsGet(details.operationId, "")]

RECURSIVE ExtractMethods(_, _, _, _)
\* the inner loop over methods.items(), from entry j on
ExtractMethods(endpoints, path, methods, j) ==
    IF j > Len(methods) THEN endpoints
    ELSE ExtractMethods(
            IF IsHttpMethod(methods[j].key)
            THEN Append(endpoints, Endpoint(path, methods[j].key, methods[j].details))
            ELSE endpoints,
            path, methods, j + 1)

RECURSIVE ExtractPaths(_, _, _)
\* the outer loop over paths.items(), from entry i on
ExtractPaths(endpoints, paths, i) ==
    IF i > Len(paths) THEN endpoints
    ELSE ExtractPaths(ExtractMethods(endpoints, paths[i].path, paths[i].methods, 1),
                      paths, i + 1)

\* openapi_spec.get("paths", {}) and the two loops
extract_endpoints(openapi_spec) ==
    ExtractPaths(<<>>, IF openapi_spec.has_paths THEN openapi_spec.paths ELSE <<>>, 1)

call_extract_endpoints ==
    /\ fn = "extract_endpoints"
    /\ ~returned
    /\ ret' = extract_endpoints(args)
    /\ returned' = TRUE
    /\ UNCHANGED <<fn, args>>
    /\ UNCHANGED cmdvars

(***************************************************************************)
(* query: the client-side filter                                           *)
(***************************************************************************)
\* most objects of a listing
MaxItems == 2

\* JSON values of a field: a string, null, an empty object; Absent marks a
\* field the object does not have
StrValue(text) == [type |-> "str", text |-> text]
NullValue == [type |-> "null", text |-> <<>>]
DictValue == [type |-> "dict", text |-> <<>>]
Absent == [type |-> "absent", text |-> <<>>]

\* the fields filtered on
FilterKeys == {"status", "name"}

StatusValues ==
    {Absent, NullValue, DictValue,
     StrValue(<<"R", "u", "n", "n", "i", "n", "g">>),
     StrValue(<<"e", "x", "i", "t", "e", "d">>)}

NameValues == {Absent, StrValue(<<"r", "u", "n", "n", "e", "r">>)}

\* the objects of a listing
Items == [status : StatusValues, name : NameValues]

\* response.json() when it is a list
Listings == UNION {[1..k -> Items] : k \in 0..MaxItems}

\* the text after `=` of a --filter option
Patterns == {<<>>, <<"R", "U", "N">>, <<"e">>}

\* the `filters` dict: keys in insertion order, each with its pattern
FilterMaps ==
    {[k \in 1..Len(x[1]) |-> [key |-> x[1][k], value |-> x[2][k]]] :
        x \in {y \in DistinctSeqs(FilterKeys, Cardinality(FilterKeys))
                        \X UNION {[1..k -> Patterns] : k \in 0..Cardinality(FilterKeys)} :
                    Len(y[1]) = Len(y[2])}}

QueryFilterArgs == [result : Listings, filters : FilterMaps]

\* str(value)
Str(value) ==
    CASE value.type = "str" -> value.text
      [] value.type = "null" -> <<"N", "o", "n", "e">>
      [] value.type = "dict" -> <<"{", "}">>

\* variant: item.get(key), None when the field is absent
ItemGet_NoDefault(item, key, default) ==
    IF item[key] = Absent THEN NullValue ELSE item[key]

\* item.get(key, default)
ItemGet(item, key, default) ==
    IF item[key] = Absent THEN default ELSE item[key]

\* the offsets at which sub occurs in str
Occurrences(str, sub) ==
    {i \in 0..(Len(str) - Len(sub)) : SubSeq(str, i + 1, i + Len(sub)) = sub}

\* variant: only an occurrence at the start counts
Find_AtStartOnly(str, sub) ==
    IF 0 \in Occurrences(str, sub) THEN 0 ELSE -1

\* str.find(sub): the lowest offset, -1 when there is none
Find(str, sub) ==
    IF Occurrences(str, sub) = {} THEN -1
    ELSE CHOOSE i \in Occurrences(str, sub) : \A j \in Occurrences(str, sub) : i <= j

\* the condition of the list comprehension
KeepsItem(item, key, value) ==
    Find(LowerStr(Str(ItemGet(item, key, StrValue(<<>>)))), LowerStr(value)) # -1

RECURSIVE ApplyFilters(_, _, _)
\* the loop over filters.items(), from entry k on
ApplyFilters(filtered_items, filters, k) ==
    IF k > Len(filters) THEN filtered_items
    ELSE ApplyFilters(
            SelectSeq(filtered_items,
                      LAMBDA item : KeepsItem(item, filters[k].key, filters[k].value)),
            filters, k + 1)

\* filtered_items after the loop
query_filter(a) == ApplyFilters(a.result, a.filters, 1)

call_query_filter ==
    /\ fn = "query_filter"
    /\ ~returned
    /\ ret' = query_filter(args)
    /\ returned' = TRUE
    /\ UNCHANGED <<fn, args>>
    /\ UNCHANGED cmdvars


(***************************************************************************)
(* utils/validate.py: endpoint coverage                                    *)
(*                                                                         *)
(* A path is a sequence of tokens: "/", "." and words, a word being a run  *)
(* of characters other than "/" and ".".                                   *)
(***************************************************************************)
\* the four CRUD endpoints of a resource, `delete` under the suffix del
CrudEndpoints(category, del) ==
    {<<"/", category, ".", "create">>, <<"/", category, ".", "one">>,
     <<"/", category, ".", "update">>, <<"/", category, ".", del>>}

\* further endpoints of a resource
OtherEndpoints(category, operations) ==
    {<<"/", category, ".", op>> : op \in operations}

\* the endpoint values of each implemented resource
IMPLEMENTED_RESOURCES ==
    [project |-> CrudEndpoints("project", "remove"),
     application |-> CrudEndpoints("application", "delete")
        \cup OtherEndpoints("application", {"deploy", "redeploy", "start", "stop", "reload"}),
     domain |-> CrudEndpoints("domain", "delete"),
     compose |-> CrudEndpoints("compose", "delete")
        \cup OtherEndpoints("compose", {"deploy", "redeploy", "start", "stop"}),
     backup |-> CrudEndpoints("backup", "remove"),
     registry |-> CrudEndpoints("registry", "remove"),
     server |-> CrudEndpoints("server", "remove"),
     mount |-> CrudEndpoints("mounts", "remove"),
     port |-> CrudEndpoints("port", "delete"),
     security |-> CrudEndpoints("security", "delete"),
     ssh_key |-> CrudEndpoints("sshKey", "remove")]

\* paths found in a document
SpecPaths ==
    {<<"/", "project", ".", "create">>,
     <<"/", "project", ".", "all">>,
     <<"/", "mounts", ".", "remove">>,
     <<"/", "settings", ".", "health", ".", "check">>,
     <<"/", "health">>,
     <<"/", "/", "project", ".", "create">>,
     <<"project", ".", "one">>}

\* documents: without `paths`, or with up to MaxPaths paths in insertion order
CoverageSpecs ==
    {[has_paths |-> FALSE, paths |-> <<>>]}
    \cup {[has_paths |-> TRUE, paths |-> q] : q \in DistinctSeqs(SpecPaths, MaxPaths)}

RECURSIVE LStripSlash(_)
\* str.lstrip("/")
LStripSlash(path) ==
    IF path # <<>> /\ Head(path) = "/" THEN LStripSlash(Tail(path)) ELSE path

\* "." in path
HasDot(path) == \E i \in 1..Len(path) : path[i] = "."

\* path.split(".")[0]
BeforeFirstDot(path) ==
    IF HasDot(path)
    THEN SubSeq(path, 1, (CHOOSE i \in 1..Len(path) :
                            /\ path[i] = "."
                            /\ \A j \in 1..(i - 1) : path[j] # ".") - 1)
    ELSE path

\* endpoints_by_category[category].append(path_clean)
AppendToCategory(by_category, category, path_clean) ==
    IF \E i \in 1..Len(by_category) : by_category[i].category = category
    THEN [i \in 1..Len(by_category) |->
            IF by_category[i].category = category
            THEN [by_category[i] EXCEPT !.endpoints = Append(@, path_clean)]
            ELSE by_category[i]]
    ELSE Append(by_category, [category |-> category, endpoints |-> <<path_clean>>])

\* variant: a path without "." is filed under its whole text
CategorizePath_KeepsDotless(by_category, path) ==
    AppendToCategory(by_category, BeforeFirstDot(LStripSlash(path)), LStripSlash(path))

\* the body of the loop over spec["paths"]
CategorizePath(by_category, path) ==
    IF HasDot(LStripSlash(path))
    THEN AppendToCategory(by_category, BeforeFirstDot(LStripSlash(path)), LStripSlash(path))
    ELSE by_category

RECURSIVE CategorizePaths(_, _, _)
\* the loop over spec["paths"], from entry i on
CategorizePaths(by_category, paths, i) ==
    IF i > Len(paths) THEN by_category
    ELSE CategorizePaths(CategorizePath(by_category, paths[i]), paths, i + 1)

\* categories in order of first appearance, each with its endpoints
extract_crud_endpoints(spec) ==
    IF ~spec.has_paths THEN <<>> ELSE CategorizePaths(<<>>, spec.paths, 1)

\* covered_endpoints: every table value without its leading "/"
CoveredSet ==
    {LStripSlash(endpoint) :
        endpoint \in UNION {IMPLEMENTED_RESOURCES[resource] :
                                resource \in DOMAIN IMPLEMENTED_RESOURCES}}

\* [ep for ep in endpoints if ep in covered_endpoints]
CoveredOf(endpoints) == SelectSeq(endpoints, LAMBDA ep : ep \in CoveredSet)

\* [ep for ep in endpoints if ep not in covered_endpoints]
UncoveredOf(endpoints) == SelectSeq(endpoints, LAMBDA ep : ep \notin CoveredSet)

\* x / y * 100 as the exact fraction num / den; 0 when y is 0
Percentage(x, y) ==
    IF y > 0 THEN [num |-> x * 100, den |-> y] ELSE [num |-> 0, den |-> 1]

\* variant: covered counts the endpoints that are not in the covered-set
CategoryReport_CountsUncovered(entry) ==
    [category |-> entry.category,
     total |-> Len(entry.endpoints),
     covered |-> Len(UncoveredOf(entry.endpoints)),
     percentage |-> Percentage(Len(UncoveredOf(entry.endpoints)), Len(entry.endpoints)),
     endpoints |-> entry.endpoints,
     covered_endpoints |-> CoveredOf(entry.endpoints),
     uncovered_endpoints |-> UncoveredOf(entry.endpoints)]

\* coverage_report[category]
CategoryReport(entry) ==
    [category |-> entry.category,
     total |-> Len(entry.endpoints),
     covered |-> Len(CoveredOf(entry.endpoints)),
     percentage |-> Percentage(Len(CoveredOf(entry.endpoints)), Len(entry.endpoints)),
     endpoints |-> entry.endpoints,
     covered_endpoints |-> CoveredOf(entry.endpoints),
     uncovered_endpoints |-> UncoveredOf(entry.endpoints)]

\* the three results of analyze_coverage for the loaded document
analyze_coverage(spec) ==
    LET spec_endpoints == extract_crud_endpoints(spec)
        coverage_report == [i \in 1..Len(spec_endpoints) |-> CategoryReport(spec_endpoints[i])]
    IN [coverage_report |-> coverage_report,
        uncovered_endpoints |->
            [i \in 1..Len(SelectSeq(coverage_report, LAMBDA r : r.covered < r.total)) |->
                LET r == SelectSeq(coverage_report, LAMBDA x : x.covered < x.total)[i]
                IN [category |-> r.category, endpoints |-> r.uncovered_endpoints]],
        spec_endpoints |-> spec_endpoints]

RECURSIVE Sum(_)
\* sum(...) of a sequence of numbers
Sum(numbers) ==
    IF numbers = <<>> THEN 0 ELSE Head(numbers) + Sum(Tail(numbers))

\* variant: the covered total counts every endpoint of the table
TotalCovered_FromTable(coverage_report) == Cardinality(CoveredSet)

\* total_covered
TotalCovered(coverage_report) ==
    Sum([i \in 1..Len(coverage_report) |-> Len(coverage_report[i].covered_endpoints)])

\* the analysis and the summary statistics of generate_report
generate_report(spec) ==
    LET a == analyze_coverage(spec)
        total_endpoints == Sum([i \in 1..Len(a.spec_endpoints) |-> Len(a.spec_endpoints[i].endpoints)])
        total_covered == TotalCovered(a.coverage_report)
    IN [coverage_report |-> a.coverage_report,
        uncovered_endpoints |-> a.uncovered_endpoints,
        spec_endpoints |-> a.spec_endpoints,
        total_endpoints |-> total_endpoints,
        total_covered |-> total_covered,
        overall_percentage |-> Percentage(total_covered, total_endpoints)]

call_generate_report ==
    /\ fn = "generate_report"
    /\ ~returned
    /\ ret' = generate_report(args)
    /\ returned' = TRUE
    /\ UNCHANGED <<fn, args>>
    /\ UNCHANGED cmdvars


(***************************************************************************)
(* utils/validate.py: categorize_endpoint                                  *)
(***************************************************************************)
\* most name parts after the category of an endpoint
MaxParts == 2

\* the keyword lists, in the order the function tests them
CrudKeywords ==
    <<<<".", "c", "r", "e", "a", "t", "e">>,
      <<".", "o", "n", "e">>,
      <<".", "u", "p", "d", "a", "t", "e">>,
      <<".", "d", "e", "l", "e", "t", "e">>,
      <<".", "r", "e", "m", "o", "v", "e">>>>

LifecycleKeywords ==
    <<<<".", "d", "e", "p", "l", "o", "y">>,
      <<".", "r", "e", "d", "e", "p", "l", "o", "y">>,
      <<".", "s", "t", "a", "r", "t">>,
      <<".", "s", "t", "o", "p">>,
      <<".", "r", "e", "l", "o", "a", "d">>,
      <<".", "r", "e", "s", "t", "a", "r", "t">>>>

QueryKeywords ==
    <<<<".", "a", "l", "l">>,
      <<".", "l", "i", "s", "t">>,
      <<".", "g", "e", "t">>>>

\* parts an endpoint name is made of after its category
EndpointParts ==
    {<<".", "c", "r", "e", "a", "t", "e">>,
     <<".", "o", "n", "e">>,
     <<".", "r", "e", "m", "o", "v", "e">>,
     <<".", "d", "e", "p", "l", "o", "y">>,
     <<".", "r", "e", "d", "e", "p", "l", "o", "y">>,
     <<".", "s", "t", "o", "p">>,
     <<".", "r", "e", "s", "t", "a", "r", "t">>,
     <<".", "a", "l", "l">>,
     <<".", "g", "e", "t">>,
     <<".", "C", "r", "e", "a", "t", "e">>,
     <<".", "A", "L", "L">>,
     <<".", "S", "t", "o", "p">>,
     <<".", "s", "e", "a", "r", "c", "h">>,
     <<".", "o", "n">>,
     <<"d", "e", "p", "l", "o", "y">>,
     <<"c", "r", "e", "a", "t", "e">>,
     <<".", "g", "e", "t", "O", "n", "e">>}

RECURSIVE Concat(_)
\* the parts joined into one string
Concat(parts) == IF parts = <<>> THEN <<>> ELSE Head(parts) \o Concat(Tail(parts))

\* endpoint names: a category followed by up to MaxParts parts
EndpointNames ==
    {<<"a">> \o Concat(parts) : parts \in UNION {[1..n -> EndpointParts] : n \in 0..MaxParts}}

\* `sub in str`
Contains(str, sub) == Occurrences(str, sub) # {}

\* any(op in endpoint_lower for op in keywords)
AnyIn(keywords, endpoint_lower) ==
    \E k \in 1..Len(keywords) : Contains(endpoint_lower, keywords[k])

\* variant: the lifecycle keywords are tested before the CRUD keywords
categorize_endpoint_LifecycleFirst(endpoint) ==
    IF AnyIn(LifecycleKeywords, LowerStr(endpoint)) THEN "Lifecycle"
    ELSE IF AnyIn(CrudKeywords, LowerStr(endpoint)) THEN "CRUD"
    ELSE IF AnyIn(QueryKeywords, LowerStr(endpoint)) THEN "Query"
    ELSE "Management"

categorize_endpoint(endpoint) ==
    IF AnyIn(CrudKeywords, LowerStr(endpoint)) THEN "CRUD"
    ELSE IF AnyIn(LifecycleKeywords, LowerStr(endpoint)) THEN "Lifecycle"
    ELSE IF AnyIn(QueryKeywords, LowerStr(endpoint)) THEN "Query"
    ELSE "Management"

call_categorize_endpoint ==
    /\ fn = "categorize_endpoint"
    /\ ~returned
    /\ ret' = categorize_endpoint(args)
    /\ returned' = TRUE
    /\ UNCHANGED <<fn, args>>
    /\ UNCHANGED cmdvars


(***************************************************************************)
(* update, delete, batch-delete: the request body                          *)
(***************************************************************************)
\* most --field options of one update command
MaxFields == 2

\* resource names given on the command line
ResourceNames == {<<"p", "r", "o", "j", "e", "c", "t">>, <<"c", "o", "m", "p", "o", "s", "e">>}

\* --field options: name=x, projectId=b, description=a=b, and one without "="
FieldOptions ==
    {<<"n", "a", "m", "e", "=", "x">>,
     <<"p", "r", "o", "j", "e", "c", "t", "I", "d", "=", "b">>,
     <<"d", "e", "s", "c", "r", "i", "p", "t", "i", "o", "n", "=", "a", "=", "b">>,
     <<"f", "o", "r", "c", "e">>}

\* "=" in f
HasEquals(f) == \E i \in 1..Len(f) : f[i] = "="

\* f.split("=", 1) of an option that has an "="
SplitOnce(f) ==
    LET i == CHOOSE n \in 1..Len(f) : f[n] = "=" /\ \A m \in 1..(n - 1) : f[m] # "="
    IN [key |-> SubSeq(f, 1, i - 1), value |-> SubSeq(f, i + 1, Len(f))]

\* data[key] = value on a dict kept as its items in insertion order
DictSet(data, key, value) ==
    IF \E i \in 1..Len(data) : data[i].key = key
    THEN [i \in 1..Len(data) |->
            IF data[i].key = key THEN [key |-> key, value |-> value] ELSE data[i]]
    ELSE Append(data, [key |-> key, value |-> value])

\* f"{resource}Id"
IdField(resource) == resource \o <<"I", "d">>

RECURSIVE AddFields(_, _, _)
\* the loop over the --field options, from option i on
AddFields(data, field, i) ==
    IF i > Len(field) THEN data
    ELSE AddFields(IF HasEquals(field[i])
                   THEN DictSet(data, SplitOnce(field[i]).key, SplitOnce(field[i]).value)
                   ELSE data,
                   field, i + 1)

\* the body of the request of update
update_data(resource, resource_id, field) ==
    AddFields(<<[key |-> IdField(resource), value |-> <<resource_id>>]>>, field, 1)

\* the body of every request of delete
delete_data(resource, resource_id) ==
    <<[key |-> IdField(resource), value |-> <<resource_id>>]>>

\* the body of every request of batch-delete for one identifier
batch_delete_data(resource, resource_id) ==
    <<[key |-> IdField(resource), value |-> <<resource_id>>]>>

RequestDataArgs ==
    [command : {"update"}, resource : ResourceNames, resource_id : ResourceIds,
     field : UNION {[1..n -> FieldOptions] : n \in 0..MaxFields}]
    \cup [command : {"delete", "batch-delete"}, resource : ResourceNames,
          resource_id : ResourceIds, field : {<<>>}]

request_data(a) ==
    IF a.command = "update"
    THEN update_data(a.resource, a.resource_id, a.field)
    ELSE IF a.command = "delete"
    THEN delete_data(a.resource, a.resource_id)
    ELSE batch_delete_data(a.resource, a.resource_id)

call_request_data ==
    /\ fn = "request_data"
    /\ ~returned
    /\ ret' = request_data(args)
    /\ returned' = TRUE
    /\ UNCHANGED <<fn, args>>
    /\ UNCHANGED cmdvars


(***************************************************************************)
(* query: from the --filter options to the filtered listing                *)
(***************************************************************************)
\* most --filter options of one query command
MaxFilters == 2

\* --filter options: name=e, name=x, status=RUN, name=e=x, and one without "="
FilterOptions ==
    {<<"n", "a", "m", "e", "=", "e">>,
     <<"n", "a", "m", "e", "=", "x">>,
     <<"s", "t", "a", "t", "u", "s", "=", "R", "U", "N">>,
     <<"n", "a", "m", "e", "=", "e", "=", "x">>,
     <<"s", "t", "a", "t", "u", "s">>}

\* the spelling of the field names
KeyChars ==
    [status |-> <<"s", "t", "a", "t", "u", "s">>, name |-> <<"n", "a", "m", "e">>]

\* the field an option key names
FieldNamed(key) == CHOOSE k \in FilterKeys : KeyChars[k] = key

RECURSIVE ParseFilters(_, _, _)
\* the loop over the --filter options, from option i on
ParseFilters(filters, filter, i) ==
    IF i > Len(filter) THEN filters
    ELSE ParseFilters(IF HasEquals(filter[i])
                      THEN DictSet(filters, SplitOnce(filter[i]).key, SplitOnce(filter[i]).value)
                      ELSE filters,
                      filter, i + 1)

QueryArgs ==
    [result : Listings, filter : UNION {[1..n -> FilterOptions] : n \in 0..MaxFilters}]

\* filtered_items of query for the options `filter` and the listing `result`
query(a) ==
    LET filters == ParseFilters(<<>>, a.filter, 1)
    IN ApplyFilters(a.result,
                    [k \in 1..Len(filters) |->
                        [key |-> FieldNamed(filters[k].key), value |-> filters[k].value]],
                    1)

call_query ==
    /\ fn = "query"
    /\ ~returned
    /\ ret' = query(args)
    /\ returned' = TRUE
    /\ UNCHANGED <<fn, args>>
    /\ UNCHANGED cmdvars


(***************************************************************************)
(* utils/schema.py: extract_schema_for_resource                            *)
(***************************************************************************)
PRIORITY_RESOURCES ==
    <<<<"p", "r", "o", "j", "e", "c", "t">>,
      <<"a", "p", "p", "l", "i", "c", "a", "t", "i", "o", "n">>,
      <<"a", "u", "t", "h">>,
      <<"b", "a", "c", "k", "u", "p">>,
      <<"c", "l", "u", "s", "t", "e", "r">>,
      <<"c", "o", "m", "p", "o", "s", "e">>,
      <<"d", "e", "p", "l", "o", "y", "m", "e", "n", "t">>,
      <<"d", "o", "c", "k", "e", "r">>,
      <<"d", "o", "m", "a", "i", "n">>,
      <<"g", "i", "t", "h", "u", "b">>,
      <<"m", "o", "u", "n", "t", "s">>,
      <<"n", "o", "t", "i", "f", "i", "c", "a", "t", "i", "o", "n">>,
      <<"p", "o", "r", "t">>,
      <<"r", "e", "g", "i", "s", "t", "r", "y">>,
      <<"s", "e", "c", "u", "r", "i", "t", "y">>,
      <<"s", "e", "r", "v", "e", "r">>,
      <<"s", "e", "t", "t", "i", "n", "g", "s">>,
      <<"s", "s", "h", "K", "e", "y">>,
      <<"u", "s", "e", "r">>>>

\* paths found in a document
SchemaPaths ==
    {<<"/", "s", "s", "h", "K", "e", "y", ".", "o", "n", "e">>,
     <<"/", "s", "s", "h", "k", "e", "y", ".", "a", "l", "l">>,
     <<"/", "p", "r", "o", "j", "e", "c", "t", ".", "o", "n", "e">>,
     <<"/", "P", "R", "O", "J", "E", "C", "T", ".", "A", "l", "l">>,
     <<"/", "u", "s", "e", "r", ".", "a", "l", "l">>}

\* the mapping under a path: a get operation, or GET and parameters
SchemaPathItems ==
    {<<[key |-> <<"g", "e", "t">>, details |-> DetailsOf(<<"g", "e", "t">>)]>>,
     <<[key |-> <<"G", "E", "T">>, details |-> DetailsOf(<<"G", "E", "T">>)],
       [key |-> <<"p", "a", "r", "a", "m", "e", "t", "e", "r", "s">>, details |-> DetailsOf(<<"p", "a", "r", "a", "m", "e", "t", "e", "r", "s">>)]>>}

\* documents with up to MaxPaths paths and no `components`
SchemaSpecs ==
    {PathsDocument(x[1], x[2]) :
        x \in {y \in DistinctSeqs(SchemaPaths, MaxPaths)
                        \X UNION {[1..k -> SchemaPathItems] : k \in 0..MaxPaths} :
                    Len(y[1]) = Len(y[2])}}

SchemaArgs ==
    [openapi_spec : SchemaSpecs,
     resource : {PRIORITY_RESOURCES[i] : i \in 1..Len(PRIORITY_RESOURCES)}]

\* f"/{resource}." in path.lower()
PathBelongsTo(path, resource) ==
    Contains(LowerStr(path), <<"/">> \o resource \o <<".">>)

\* endpoint_info; the documents carry no parameters, requestBody or responses
EndpointInfo(path, method, details) ==
    [path |-> path,
     method |-> UpperStr(method),
     summary |-> DetailsGet(details.summary, ""),
     description |-> DetailsGet(details.description, ""),
     operationId |-> DetailsGet(details.operationId, "")]

RECURSIVE SchemaMethods(_, _, _, _)
\* the loop over methods.items(), from entry j on
SchemaMethods(endpoints, path, methods, j) ==
    IF j > Len(methods) THEN endpoints
    ELSE SchemaMethods(
            IF IsHttpMethod(methods[j].key)
            THEN Append(endpoints, EndpointInfo(path, methods[j].key, methods[j].details))
            ELSE endpoints,
            path, methods, j + 1)

RECURSIVE SchemaEndpoints(_, _, _, _)
\* the loop over paths.items(), from entry i on
SchemaEndpoints(endpoints, paths, resource, i) ==
    IF i > Len(paths) THEN endpoints
    ELSE SchemaEndpoints(
            IF PathBelongsTo(paths[i].path, resource)
            THEN SchemaMethods(endpoints, paths[i].path, paths[i].methods, 1)
            ELSE endpoints,
            paths, resource, i + 1)

\* the result for a document without `components`: no schemas
extract_schema_for_resource(openapi_spec, resource) ==
    [resource |-> resource,
     endpoints |-> SchemaEndpoints(<<>>, openapi_spec.paths, resource, 1),
     schemas |-> <<>>]

call_extract_schema_for_resource ==
    /\ fn = "extract_schema_for_resource"
    /\ ~returned
    /\ ret' = extract_schema_for_resource(args.openapi_spec, args.resource)
    /\ returned' = TRUE
    /\ UNCHANGED <<fn, args>>
    /\ UNCHANGED cmdvars

(***************************************************************************)
(* Specification of the library calls.                                     *)
(***************************************************************************)
LibFunctions == {"load_config", "make_api_request", "extract_endpoints",
                 "query_filter",
                 "generate_report",
                 "categorize_endpoint",
                 "request_data",
                 "query",
                 "extract_schema_for_resource"}

LibArgs(f) ==
    CASE f = "load_config" -> LoadConfigArgs
      [] f = "make_api_request" -> MakeApiRequestArgs
      [] f = "extract_endpoints" -> OpenApiSpecs
      [] f = "query_filter" -> QueryFilterArgs
      [] f = "generate_report" -> CoverageSpecs
      [] f = "categorize_endpoint" -> EndpointNames
      [] f = "request_data" -> RequestDataArgs
      [] f = "query" -> QueryArgs
      [] f = "extract_schema_for_resource" -> SchemaArgs

LibInit ==
    /\ NoCommand
    /\ fn \in LibFunctions
    /\ args \in LibArgs(fn)
    /\ ret = <<>>
    /\ returned = FALSE

LibNext ==
    \/ call_load_config
    \/ call_make_api_request
    \/ call_extract_endpoints
    \/ call_query_filter
    \/ call_generate_report
    \/ call_categorize_endpoint
    \/ call_request_data
    \/ call_query
    \/ call_extract_schema_for_resource

LibSpec == LibInit /\ [][LibNext]_vars

(***************************************************************************)
(* C12: load_config resolves api_key and base_url each from the first      *)
(* source that defines it, in the order explicit env-file argument,        *)
(* current-directory file, parent-directory file, process environment,     *)
(* hardcoded default.                                                      *)
(***************************************************************************)
\* the value of key k in file f, Undefined when the file is missing
FileValue(f, k) == IF f.exists THEN f.data[k] ELSE Undefined

FirstDefined(a, k, default) ==
    IF a.env_file = "explicit" /\ FileValue(a.explicit, k) # Undefined
    THEN FileValue(a.explicit, k)
    ELSE IF FileValue(a.cwd, k) # Undefined THEN FileValue(a.cwd, k)
    ELSE IF FileValue(a.parent, k) # Undefined THEN FileValue(a.parent, k)
    ELSE IF a.environ[k] # Undefined THEN a.environ[k]
    ELSE default

ConsultedFile(a) ==
    CASE a.env_file = "explicit" -> "explicit"
      [] a.env_file = "none" /\ a.cwd.exists -> "cwd"
      [] OTHER -> "parent"

\* the values that files other than the consulted one give
OtherFileValues(a) == {"explicit", "cwd", "parent"} \ {ConsultedFile(a)}

ResolvedAsAmended(a, k, r, default) ==
    LET f == ConsultedFile(a)
        inFile == (f = "explicit" /\ FileValue(a.explicit, k) # Undefined)
                  \/ (f = "cwd" /\ FileValue(a.cwd, k) # Undefined)
                  \/ (f = "parent" /\ FileValue(a.parent, k) # Undefined)
    IN /\ a.environ[k] # Undefined => r = "env"
       /\ (a.environ[k] = Undefined /\ inFile) => r = f
       /\ (a.environ[k] = Undefined /\ ~inFile) => r = default
       /\ r \notin OtherFileValues(a)

DefinedNowhere(a, k) ==
    /\ a.environ[k] = Undefined
    /\ FileValue(a.explicit, k) = Undefined
    /\ FileValue(a.cwd, k) = Undefined
    /\ FileValue(a.parent, k) = Undefined

C13_MissingKeyNeverRaises ==
    (fn = "load_config" /\ returned) =>
        /\ ret.api_key # UndefinedValueError
        /\ ret.base_url # UndefinedValueError
        /\ DefinedNowhere(args, "API_KEY") => ret.api_key = NoneValue
        /\ DefinedNowhere(args, "BASE_URL") => ret.base_url = DefaultBaseUrl

\* a key-value file is found and defines nothing, nor does the environment
C13_Witness ==
    /\ fn = "load_config"
    /\ returned
    /\ ChosenEnvFile(args).exists
    /\ DefinedNowhere(args, "API_KEY")
    /\ DefinedNowhere(args, "BASE_URL")
    /\ ret = [api_key |-> NoneValue, base_url |-> DefaultBaseUrl]

(***************************************************************************)
(* C14: make_api_request with a verb outside GET/POST/PUT/PATCH/DELETE     *)
(* (compared without regard to letter case) fails with a ValueError that   *)
(* names the method as given, and issues no HTTP request.                  *)
(***************************************************************************)
SupportedLower ==
    {<<"g", "e", "t">>, <<"p", "o", "s", "t">>, <<"p", "u", "t">>,
     <<"p", "a", "t", "c", "h">>, <<"d", "e", "l", "e", "t", "e">>}

IsSupportedMethod(m) == LowerStr(m) \in SupportedLower

C14_UnsupportedMethodRaises ==
    (fn = "make_api_request" /\ returned /\ ~IsSupportedMethod(args.method)) =>
        /\ ret.raised
        /\ ret.error_method = args.method
        /\ ret.wire = <<>>

\* the verb options, in lower case
C14_Witness ==
    /\ fn = "make_api_request"
    /\ returned
    /\ args.method = <<"o", "p", "t", "i", "o", "n", "s">>
    /\ ret.raised
    /\ ret.wire = <<>>

(***************************************************************************)
(* C15: for GET, POST, PUT, PATCH and DELETE in any letter case            *)
(* make_api_request issues exactly one HTTP request: GET as a GET with     *)
(* `params` as query parameters and no body; POST, PUT and PATCH as a POST *)
(* with `data` as JSON body; DELETE as a DELETE with `data` as JSON body.  *)
(***************************************************************************)
C15_VerbMapping ==
    (fn = "make_api_request" /\ returned /\ IsSupportedMethod(args.method)) =>
        LET m == LowerStr(args.method)
        IN /\ ~ret.raised
           /\ Len(ret.wire) = 1
           /\ m = <<"g", "e", "t">> =>
                 /\ ret.wire[1].verb = "GET"
                 /\ ret.wire[1].params = args.params
                 /\ ret.wire[1].json = NoneValue
           /\ m \in {<<"p", "o", "s", "t">>, <<"p", "u", "t">>, <<"p", "a", "t", "c", "h">>} =>
                 /\ ret.wire[1].verb = "POST"
                 /\ ret.wire[1].json = args.data
                 /\ ret.wire[1].params = NoneValue
           /\ m = <<"d", "e", "l", "e", "t", "e">> =>
                 /\ ret.wire[1].verb = "DELETE"
                 /\ ret.wire[1].json = args.data
                 /\ ret.wire[1].params = NoneValue

\* a lower-case put with a body went out as one POST
C15_Witness ==
    /\ fn = "make_api_request"
    /\ returned
    /\ args.method = <<"p", "u", "t">>
    /\ args.data = "{\"name\": \"x\"}"
    /\ Len(ret.wire) = 1
    /\ ret.wire[1].verb = "POST"

(***************************************************************************)
(* C16: every request built by make_api_request carries x-api-key with the *)
(* key and accept: application/json, and carries Content-Type:             *)
(* application/json exactly when `data` was supplied, whatever the verb.   *)
(***************************************************************************)
C16_Headers ==
    (fn = "make_api_request" /\ returned) =>
        \A i \in 1..Len(ret.wire) :
            LET h == ret.wire[i].headers
            IN /\ <<"x-api-key", args.api_key>> \in h
               /\ <<"accept", "application/json">> \in h
               /\ \A e \in h : e[1] \in {"x-api-key", "accept", "Content-Type"}
               /\ Cardinality(h) = Cardinality({e[1] : e \in h})
               /\ <<"Content-Type", "application/json">> \in h <=> args.data # NoneValue

\* a POST whose body is the empty dict still carries Content-Type
C16_Witness ==
    /\ fn = "make_api_request"
    /\ returned
    /\ args.method = POST
    /\ args.data = "{}"
    /\ Len(ret.wire) = 1
    /\ <<"Content-Type", "application/json">> \in ret.wire[1].headers

(***************************************************************************)
(* C17: extract_endpoints returns exactly one descriptor for each          *)
(* (path, key) entry of `paths` whose key is, without regard to letter     *)
(* case, one of get/post/put/delete/patch, and none for any other key; the *)
(* descriptors come in document order (paths in order, keys in order       *)
(* within a path) with the method in upper case; a missing summary,        *)
(* description or operationId is the empty string and missing tags the     *)
(* empty sequence; a document without `paths` gives the empty list.        *)
(***************************************************************************)
\* the (path index, key index) pairs of the document that are HTTP operations
Operations(doc) ==
    {e \in (1..Len(doc.paths)) \X (1..MaxKeys + 1) :
        /\ e[2] <= Len(doc.paths[e[1]].methods)
        /\ UpperStr(doc.paths[e[1]].methods[e[2]].key) \in {GET, POST, PUT, DELETE, PATCH}}

\* document order
Before(d, e) == d[1] < e[1] \/ (d[1] = e[1] /\ d[2] < e[2])

\* where the descriptor of operation e is expected
Rank(doc, e) == 1 + Cardinality({d \in Operations(doc) : Before(d, e)})

C17_OneDescriptorPerOperationInOrder ==
    (fn = "extract_endpoints" /\ returned) =>
        /\ ~args.has_paths => ret = <<>>
        /\ Len(ret) = Cardinality(Operations(args))
        /\ \A e \in Operations(args) :
              LET entry == args.paths[e[1]].methods[e[2]]
                  d == ret[Rank(args, e)]
              IN /\ d.path = args.paths[e[1]].path
                 /\ d.method = UpperStr(entry.key)
                 /\ d.summary = (IF entry.details.summary = Undefined
                                 THEN "" ELSE entry.details.summary)
                 /\ d.description = (IF entry.details.description = Undefined
                                     THEN "" ELSE entry.details.description)
                 /\ d.operationId = (IF entry.details.operationId = Undefined
                                     THEN "" ELSE entry.details.operationId)
                 /\ d.tags = (IF entry.details.has_tags THEN entry.details.tags ELSE <<>>)

\* path 2 comes before path 1 in the document; its keys are parameters and an
\* upper-case GET without description, path 1 has post then get
C17_Witness ==
    /\ fn = "extract_endpoints"
    /\ returned
    /\ Len(args.paths) = 2
    /\ args.paths[1].path = 2
    /\ Len(args.paths[1].methods) = 2
    /\ args.paths[1].methods[1].key = <<"p", "a", "r", "a", "m", "e", "t", "e", "r", "s">>
    /\ Len(ret) = 3
    /\ ret[1].path = 2 /\ ret[1].method = GET /\ ret[1].description = ""
    /\ ret[2].path = 1 /\ ret[2].method = POST /\ ret[2].tags = <<>>
    /\ ret[3].path = 1 /\ ret[3].method = GET /\ ret[3].tags = <<"resource">>

(***************************************************************************)
(* C18: no two descriptors in the output of extract_endpoints have the     *)
(* same path and the same (upper-cased) method, for every document, also   *)
(* one where a path has method keys that differ only in letter case.       *)
(***************************************************************************)
C18_NoTwoDescriptorsSamePathMethod ==
    (fn = "extract_endpoints" /\ returned) =>
        \A i, j \in 1..Len(ret) :
            i # j => ~(ret[i].path = ret[j].path /\ ret[i].method = ret[j].method)

(***************************************************************************)
(* C19: for a listing of objects and a mapping field -> pattern, the query *)
(* filter returns the subsequence of the listing, in original order, of    *)
(* exactly the objects for which every field of the mapping matches: the   *)
(* string form of the object's value contains the pattern without regard   *)
(* to letter case (substring, not equality); an absent field counts as the *)
(* empty string and never matches a non-empty pattern; with an empty       *)
(* mapping the listing is returned unchanged.                              *)
(***************************************************************************)
\* the string form of a field, the empty string when the object lacks it
FieldText(item, key) ==
    IF item[key] = Absent THEN <<>>
    ELSE IF item[key] = NullValue THEN <<"N", "o", "n", "e">>
    ELSE IF item[key] = DictValue THEN <<"{", "}">>
    ELSE item[key].text

\* small contains pattern, letter case aside
ContainsNoCase(text, pattern) ==
    \E i \in 1..(Len(text) + 1) :
        /\ i + Len(pattern) - 1 <= Len(text)
        /\ \A j \in 1..Len(pattern) :
              UpperChar(text[i + j - 1]) = UpperChar(pattern[j])

\* the positions of the listing that match every filter
Matching(listing, filters) ==
    {i \in 1..Len(listing) :
        \A k \in 1..Len(filters) :
            ContainsNoCase(FieldText(listing[i], filters[k].key), filters[k].value)}

C19_FilterIsMatchingSubsequence ==
    (fn = "query_filter" /\ returned) =>
        LET keep == Matching(args.result, args.filters)
        IN /\ Len(ret) = Cardinality(keep)
           /\ \A i \in keep :
                 ret[1 + Cardinality({j \in keep : j < i})] = args.result[i]
           /\ \A i \in 1..Len(args.result) : \A k \in 1..Len(args.filters) :
                 (/\ args.result[i][args.filters[k].key] = Absent
                  /\ args.filters[k].value # <<>>) => i \notin keep
           /\ args.filters = <<>> => ret = args.result

\* status=RUN and name=e over [exited/runner, Running/runner]: the second
\* object alone is returned; RUN is contained in Running, e in runner
C19_Witness ==
    /\ fn = "query_filter"
    /\ returned
    /\ Len(args.result) = 2
    /\ Len(args.filters) = 2
    /\ args.filters[1] = [key |-> "status", value |-> <<"R", "U", "N">>]
    /\ args.filters[2] = [key |-> "name", value |-> <<"e">>]
    /\ args.result[1].status = StrValue(<<"e", "x", "i", "t", "e", "d">>)
    /\ args.result[1].name # Absent
    /\ args.result[2].status = StrValue(<<"R", "u", "n", "n", "i", "n", "g">>)
    /\ args.result[2].name # Absent
    /\ ret = <<args.result[2]>>

(***************************************************************************)
(* C20 as stated: every object returned by the query filter has every      *)
(* field named in the pattern mapping, for every pattern including the     *)
(* empty one.                                                              *)
(***************************************************************************)
C20_ReturnedObjectsHaveEveryFilteredField ==
    (fn = "query_filter" /\ returned) =>
        \A i \in 1..Len(ret) : \A k \in 1..Len(args.filters) :
            ret[i][args.filters[k].key] # Absent

(***************************************************************************)
(* C20 as amended: every object returned by the query filter has every     *)
(* field that is filtered with a non-empty pattern; an empty pattern       *)
(* excludes no object, so an object that lacks a field filtered only with  *)
(* the empty pattern is returned when it passes the other filters.         *)
(***************************************************************************)
C20_NonEmptyPatternRequiresField ==
    (fn = "query_filter" /\ returned) =>
        /\ \A i \in 1..Len(ret) : \A k \in 1..Len(args.filters) :
              args.filters[k].value # <<>> => ret[i][args.filters[k].key] # Absent
        /\ (\A k \in 1..Len(args.filters) : args.filters[k].value = <<>>)
              => ret = args.result

\* status= and name=e over an object without status and an object without
\* name: the first is returned although it lacks status, the second is not
C20_Witness ==
    /\ fn = "query_filter"
    /\ returned
    /\ Len(args.result) = 2
    /\ Len(args.filters) = 2
    /\ args.filters[1] = [key |-> "status", value |-> <<>>]
    /\ args.filters[2] = [key |-> "name", value |-> <<"e">>]
    /\ args.result[1].status = Absent
    /\ args.result[1].name # Absent
    /\ args.result[2].name = Absent
    /\ ret = <<args.result[1]>>

(***************************************************************************)
(* C21: in every per-category coverage record of analyze_coverage the      *)
(* covered and uncovered endpoints are disjoint, together they are all the *)
(* endpoints of the category, covered + |uncovered| = total, covered is    *)
(* the number of the category's endpoints found in the implemented-        *)
(* resource table (leading "/" stripped), percentage = 100 * covered /     *)
(* total, and the category is in the uncovered listing exactly when        *)
(* covered < total.                                                        *)
(***************************************************************************)
\* the elements of a sequence
Elements(seq) == {seq[i] : i \in 1..Len(seq)}

\* the path without its leading "/" tokens
Stripped(path) ==
    LET k == CHOOSE n \in 0..Len(path) :
                /\ \A j \in 1..n : path[j] = "/"
                /\ n < Len(path) => path[n + 1] # "/"
    IN SubSeq(path, k + 1, Len(path))

\* c is the text before the first "." of the stripped path
InCategory(path, c) ==
    \E n \in 1..Len(Stripped(path)) :
        /\ Stripped(path)[n] = "."
        /\ \A j \in 1..(n - 1) : Stripped(path)[j] # "."
        /\ c = SubSeq(Stripped(path), 1, n - 1)

\* the endpoint is a value of the implemented-resource table
Implemented(ep) ==
    \E resource \in DOMAIN IMPLEMENTED_RESOURCES :
        <<"/">> \o ep \in IMPLEMENTED_RESOURCES[resource]

C21_CategoryRecordsAreConsistent ==
    (fn = "generate_report" /\ returned) =>
        \A i \in 1..Len(ret.coverage_report) :
            LET r == ret.coverage_report[i]
            IN /\ Elements(r.covered_endpoints) \cap Elements(r.uncovered_endpoints) = {}
               /\ Elements(r.covered_endpoints) \cup Elements(r.uncovered_endpoints)
                    = {Stripped(args.paths[k]) :
                          k \in {n \in 1..Len(args.paths) : InCategory(args.paths[n], r.category)}}
               /\ r.covered + Len(r.uncovered_endpoints) = r.total
               /\ r.covered = Cardinality({k \in 1..Len(args.paths) :
                                              /\ InCategory(args.paths[k], r.category)
                                              /\ Implemented(Stripped(args.paths[k]))})
               /\ r.total > 0
               /\ r.percentage.num * r.total = 100 * r.covered * r.percentage.den
               /\ (\E u \in 1..Len(ret.uncovered_endpoints) :
                      ret.uncovered_endpoints[u].category = r.category)
                    <=> r.covered < r.total

\* /project.create and /project.all: one of two covered, 50 percent, and the
\* category is listed as uncovered with project.all
C21_Witness ==
    /\ fn = "generate_report"
    /\ returned
    /\ args.paths = << <<"/", "project", ".", "create">>, <<"/", "project", ".", "all">> >>
    /\ Len(ret.coverage_report) = 1
    /\ ret.coverage_report[1].total = 2
    /\ ret.coverage_report[1].covered = 1
    /\ ret.coverage_report[1].percentage = [num |-> 100, den |-> 2]
    /\ ret.uncovered_endpoints
         = << [category |-> <<"project">>, endpoints |-> << <<"project", ".", "all">> >>] >>

(***************************************************************************)
(* C22 as stated: every path of the document belongs to exactly one        *)
(* category, the text before the first "." of the path with the leading    *)
(* "/" stripped, so the category totals sum to the number of paths of the  *)
(* document.                                                               *)
(***************************************************************************)
\* the number of entries of category c that come from the document's paths
PathsIn(c) == Cardinality({k \in 1..Len(args.paths) : InCategory(args.paths[k], c)})

C22_EveryPathInOneCategory ==
    (fn = "generate_report" /\ returned) =>
        /\ \A k \in 1..Len(args.paths) :
              Cardinality({i \in 1..Len(ret.spec_endpoints) :
                              Stripped(args.paths[k]) \in Elements(ret.spec_endpoints[i].endpoints)}) = 1
        /\ ret.total_endpoints = Len(args.paths)

(***************************************************************************)
(* C22 as amended: every path that contains a "." after its leading "/"    *)
(* belongs to exactly one category, the text before its first "."; a path  *)
(* without "." belongs to no category and is left out of the totals, so    *)
(* the category totals sum to the number of paths that contain a ".".      *)
(***************************************************************************)
C22_DottedPathsInOneCategory ==
    (fn = "generate_report" /\ returned) =>
        /\ \A i, j \in 1..Len(ret.spec_endpoints) :
              i # j => ret.spec_endpoints[i].category # ret.spec_endpoints[j].category
        /\ \A i \in 1..Len(ret.spec_endpoints) :
              /\ Len(ret.spec_endpoints[i].endpoints) = PathsIn(ret.spec_endpoints[i].category)
              /\ \A e \in Elements(ret.spec_endpoints[i].endpoints) :
                    \E k \in 1..Len(args.paths) :
                        /\ e = Stripped(args.paths[k])
                        /\ InCategory(args.paths[k], ret.spec_endpoints[i].category)
        /\ \A k \in 1..Len(args.paths) :
              IF "." \in Elements(args.paths[k])
              THEN \E i \in 1..Len(ret.spec_endpoints) :
                      InCategory(args.paths[k], ret.spec_endpoints[i].category)
              ELSE \A i \in 1..Len(ret.spec_endpoints) :
                      Stripped(args.paths[k]) \notin Elements(ret.spec_endpoints[i].endpoints)
        /\ ret.total_endpoints
             = Cardinality({k \in 1..Len(args.paths) : "." \in Elements(args.paths[k])})

\* /health and /settings.health.check: the first is in no category, the
\* second in settings, and the totals sum to one
C22_Witness ==
    /\ fn = "generate_report"
    /\ returned
    /\ args.paths = << <<"/", "health">>, <<"/", "settings", ".", "health", ".", "check">> >>
    /\ Len(ret.spec_endpoints) = 1
    /\ ret.spec_endpoints[1].category = <<"settings">>
    /\ ret.total_endpoints = 1

(***************************************************************************)
(* C24: the overall percentage is 100 * totalCovered / totalEndpoints with *)
(* totalCovered the sum of the per-category covered counts and             *)
(* totalEndpoints the sum of the per-category totals; it is 0 when there   *)
(* are no endpoints; totalCovered never exceeds totalEndpoints, so the     *)
(* percentage is within 0..100 whatever the implemented-resource table     *)
(* names.                                                                  *)
(***************************************************************************)
RECURSIVE Total(_, _)
\* the sum of field `covered` or `total` over the first n category records
Total(field, n) ==
    IF n = 0 THEN 0 ELSE ret.coverage_report[n][field] + Total(field, n - 1)

C24_OverallPercentage ==
    (fn = "generate_report" /\ returned) =>
        /\ ret.total_covered = Total("covered", Len(ret.coverage_report))
        /\ ret.total_endpoints = Total("total", Len(ret.coverage_report))
        /\ ret.total_endpoints = 0 => ret.overall_percentage = [num |-> 0, den |-> 1]
        /\ ret.total_endpoints > 0 =>
              ret.overall_percentage.num * ret.total_endpoints
                = 100 * ret.total_covered * ret.overall_percentage.den
        /\ ret.total_covered <= ret.total_endpoints
        /\ ret.overall_percentage.den > 0
        /\ 0 <= ret.overall_percentage.num
        /\ ret.overall_percentage.num <= 100 * ret.overall_percentage.den

\* two categories, one endpoint each, one of them covered: 50 percent, while
\* the table names many endpoints the document does not have
C24_Witness ==
    /\ fn = "generate_report"
    /\ returned
    /\ Len(ret.coverage_report) = 2
    /\ ret.total_endpoints = 2
    /\ ret.total_covered = 1
    /\ ret.overall_percentage = [num |-> 100, den |-> 2]
    /\ \E resource \in DOMAIN IMPLEMENTED_RESOURCES :
          \E ep \in IMPLEMENTED_RESOURCES[resource] :
              \A k \in 1..Len(args.paths) : Stripped(args.paths[k]) # Stripped(ep)

(***************************************************************************)
(* C23: categorize_endpoint gives every endpoint exactly one of the four   *)
(* kinds by case-insensitive substring match in the fixed order CRUD       *)
(* (.create .one .update .delete .remove), Lifecycle (.deploy .redeploy    *)
(* .start .stop .reload .restart), Query (.all .list .get), else           *)
(* Management: the first matching kind wins.                               *)
(***************************************************************************)
MatchesCrud(e) ==
    \E w \in {<<".", "c", "r", "e", "a", "t", "e">>,
               <<".", "o", "n", "e">>,
               <<".", "u", "p", "d", "a", "t", "e">>,
               <<".", "d", "e", "l", "e", "t", "e">>,
               <<".", "r", "e", "m", "o", "v", "e">>} : ContainsNoCase(e, w)

MatchesLifecycle(e) ==
    \E w \in {<<".", "d", "e", "p", "l", "o", "y">>,
               <<".", "r", "e", "d", "e", "p", "l", "o", "y">>,
               <<".", "s", "t", "a", "r", "t">>,
               <<".", "s", "t", "o", "p">>,
               <<".", "r", "e", "l", "o", "a", "d">>,
               <<".", "r", "e", "s", "t", "a", "r", "t">>} : ContainsNoCase(e, w)

MatchesQuery(e) ==
    \E w \in {<<".", "a", "l", "l">>,
               <<".", "l", "i", "s", "t">>,
               <<".", "g", "e", "t">>} : ContainsNoCase(e, w)

C23_FirstMatchingKindWins ==
    (fn = "categorize_endpoint" /\ returned) =>
        /\ ret \in {"CRUD", "Lifecycle", "Query", "Management"}
        /\ ret = "CRUD" <=> MatchesCrud(args)
        /\ ret = "Lifecycle" <=> (~MatchesCrud(args) /\ MatchesLifecycle(args))
        /\ ret = "Query" <=>
              (~MatchesCrud(args) /\ ~MatchesLifecycle(args) /\ MatchesQuery(args))
        /\ ret = "Management" <=>
              (~MatchesCrud(args) /\ ~MatchesLifecycle(args) /\ ~MatchesQuery(args))

\* a.Stop.Create matches a lifecycle keyword first in its text and a CRUD
\* keyword after it, both in another letter case: it is CRUD
C23_Witness ==
    /\ fn = "categorize_endpoint"
    /\ returned
    /\ args = <<"a", ".", "S", "t", "o", "p", ".", "C", "r", "e", "a", "t", "e">>
    /\ ret = "CRUD"

(***************************************************************************)
(* C25: in the delete command a response with the success status whose     *)
(* body is empty or not valid JSON is a successful deletion: the command   *)
(* exits 0 without trying the other suffix.  Nowhere else does a body that *)
(* fails to decode end in success: a simple command that decodes such a    *)
(* body exits non-zero.  The success status is 200.                        *)
(***************************************************************************)
\* the last response received has status 200 and a body that is not JSON
LastBodyUndecodable ==
    /\ log # <<>>
    /\ log[Len(log)].kind = "response"
    /\ log[Len(log)].status = 200
    /\ ~json_ok

C25_UndecodableDeleteBodyIsSuccess ==
    (pc = "done" /\ LastBodyUndecodable) =>
        /\ cmd = "delete" =>
              /\ exit_code = 0
              /\ log[Len(log)].op = "remove" =>
                    ~\E p \in LogIndex : IsRequest(p, 1, "delete")
              /\ Cardinality({p \in LogIndex : log[p].kind = "request"
                                               /\ log[p].op = log[Len(log)].op}) = 1
        /\ cmd \in SimpleCommands => exit_code # 0

\* delete: .remove is answered 200 with an empty body
C25_Witness ==
    /\ cmd = "delete"
    /\ pc = "done"
    /\ Len(log) = 2
    /\ IsResponse(2, 1, "remove")
    /\ LastBodyUndecodable
    /\ exit_code = 0

(***************************************************************************)
(* C26: every request body sent by update, delete and batch-delete for     *)
(* resource r and identifier i has the field {r}Id with value i, the       *)
(* identifier given on the command line; for update whatever --field       *)
(* options are given, one with the key {r}Id included.                     *)
(***************************************************************************)
C26_BodyCarriesCommandLineId ==
    (fn = "request_data" /\ returned) =>
        \E k \in 1..Len(ret) :
            /\ ret[k].key = args.resource \o <<"I", "d">>
            /\ ret[k].value = <<args.resource_id>>

(***************************************************************************)
(* C27: every --filter field=value option of the query command constrains  *)
(* the result: every returned item matches the pattern of every option,    *)
(* also when two options name the same field; an option without "=" is     *)
(* skipped and an option is split at its first "=" only.                   *)
(***************************************************************************)
\* option f reads field=pattern, split at its first "="
OptionReads(f, field, pattern) ==
    \E n \in 1..Len(f) :
        /\ f[n] = "="
        /\ \A m \in 1..(n - 1) : f[m] # "="
        /\ KeyChars[field] = SubSeq(f, 1, n - 1)
        /\ pattern = SubSeq(f, n + 1, Len(f))

C27_EveryFilterOptionConstrains ==
    (fn = "query" /\ returned) =>
        \A i \in 1..Len(ret) : \A o \in 1..Len(args.filter) : \A field \in FilterKeys :
            \A n \in 1..Len(args.filter[o]) :
                OptionReads(args.filter[o], field, SubSeq(args.filter[o], n + 1, Len(args.filter[o])))
                    => ContainsNoCase(FieldText(ret[i], field),
                                      SubSeq(args.filter[o], n + 1, Len(args.filter[o])))

(***************************************************************************)
(* C28: the delete command and one item of batch-delete follow the same    *)
(* decision procedure: for every sequence of outcomes of the .remove and   *)
(* .delete attempts (success status, 404, other failure status, transport  *)
(* error) both issue the same requests, same endpoints in the same order   *)
(* with the same {resource}Id body, and reach the same verdict: delete     *)
(* succeeds exactly when batch-delete counts the item as successful.       *)
(***************************************************************************)
\* the outcomes received for position i, in order
OutcomesOf(i) ==
    LET rs == SelectSeq(log, LAMBDA e : e.kind = "response" /\ e.idx = i)
    IN [k \in 1..Len(rs) |-> rs[k].status]

\* the requests the procedure issues when it has received these outcomes and
\* is finished
RequestsFor(outcomes) ==
    IF Len(outcomes) = 1 THEN <<"remove">> ELSE <<"remove", "delete">>

\* the outcomes after which the procedure is finished
IsFinal(outcomes) ==
    \/ Len(outcomes) = 1 /\ outcomes[1] = 200
    \/ Len(outcomes) = 2 /\ outcomes[1] # 200

\* the verdict of the procedure
VerdictFor(outcomes) == outcomes[Len(outcomes)] = 200

RECURSIVE FailedAmong(_)
\* the identifiers of the first n positions whose verdict is failure
FailedAmong(n) ==
    IF n = 0 THEN <<>>
    ELSE IF VerdictFor(OutcomesOf(n))
         THEN FailedAmong(n - 1)
         ELSE Append(FailedAmong(n - 1), resource_ids[n])

C28_DeleteAndBatchItemAgree ==
    /\ (cmd = "delete" /\ pc = "done" /\ api_key # "") =>
          /\ IsFinal(OutcomesOf(1))
          /\ RequestOps(1) = RequestsFor(OutcomesOf(1))
          /\ exit_code = 0 <=> VerdictFor(OutcomesOf(1))
    /\ (cmd = "batch-delete" /\ pc = "done" /\ api_key # "") =>
          /\ \A i \in Positions :
                /\ IsFinal(OutcomesOf(i))
                /\ RequestOps(i) = RequestsFor(OutcomesOf(i))
          /\ success_count = Cardinality({i \in Positions : VerdictFor(OutcomesOf(i))})
          /\ failed_ids = FailedAmong(Len(resource_ids))
    /\ \A r \in ResourceNames, i \in ResourceIds :
          delete_data(r, i) = batch_delete_data(r, i)

\* a batch item whose .remove raised a transport error and whose .delete
\* was answered 200: two requests, counted as a success
C28_Witness ==
    /\ cmd = "batch-delete"
    /\ pc = "done"
    /\ OutcomesOf(1) = <<TransportError, 200>>
    /\ RequestOps(1) = <<"remove", "delete">>
    /\ success_count >= 1
    /\ ~InSeq(resource_ids[1], failed_ids)

(***************************************************************************)
(* C29: when every request returns or raises, batch-delete over N          *)
(* identifiers terminates; it issues exactly N requests plus one for every *)
(* identifier whose .remove attempt failed, so between N and 2N; every     *)
(* identifier is counted exactly once, as a success or as a failure, and   *)
(* the check `resource_id not in failed_ids` after the inner loop never    *)
(* changes the counters.                                                   *)
(***************************************************************************)
RequestCount == Cardinality({p \in LogIndex : log[p].kind = "request"})

\* the check after the inner loop would count the current item, for some
\* outcome of the pending attempt
LateCheckCounts ==
    \E s \in Outcomes :
        LET step == BatchStep(DeleteOperations[operation], s)
            ids1 == IF step = "failed"
                    THEN Append(failed_ids, resource_ids[idx]) ELSE failed_ids
        IN /\ step # "continue" \/ operation = Len(DeleteOperations)
           /\ step # "success"
           /\ ~InSeq(resource_ids[idx], ids1)

C29_BatchTerminatesWithBoundedRequests ==
    /\ [](IsBatchRun =>
            /\ pc = "waiting" => ~LateCheckCounts
            /\ success_count + failed_count
                 = Cardinality({i \in Positions : ItemFinished(i) /\ ItemLeft(i)})
            /\ pc = "done" =>
                  /\ RequestCount = Len(resource_ids)
                        + Cardinality({i \in Positions : AttemptFailed(i, "remove")})
                  /\ RequestCount >= Len(resource_ids)
                  /\ RequestCount <= 2 * Len(resource_ids)
                  /\ success_count + failed_count = Len(resource_ids)
                  /\ Len(failed_ids) = failed_count)
    /\ (IsBatchRun ~> pc = "done")

\* a finished batch of two identifiers in which one .remove failed: 3 requests
C29_Witness ==
    /\ IsBatchRun
    /\ pc = "done"
    /\ Len(resource_ids) = 2
    /\ RequestCount = 3
    /\ success_count + failed_count = 2

(***************************************************************************)
(* C30: for every resource r of PRIORITY_RESOURCES and every document path *)
(* of the shape /r.<operation>, in any letter case,                        *)
(* extract_schema_for_resource(spec, r) lists every HTTP-verb operation of *)
(* that path among the resource's endpoints, for the mixed-case name       *)
(* sshKey as for the all-lowercase names.                                  *)
(***************************************************************************)
\* the path reads /r.<operation>, letter case aside
IsPathOf(path, r) ==
    /\ Len(path) > Len(r) + 2
    /\ path[1] = "/"
    /\ \A k \in 1..Len(r) : UpperChar(path[k + 1]) = UpperChar(r[k])
    /\ path[Len(r) + 2] = "."

C30_EveryOperationOfResourceListed ==
    (fn = "extract_schema_for_resource" /\ returned) =>
        \A i \in 1..Len(args.openapi_spec.paths) :
            IsPathOf(args.openapi_spec.paths[i].path, args.resource) =>
                \A j \in 1..Len(args.openapi_spec.paths[i].methods) :
                    UpperStr(args.openapi_spec.paths[i].methods[j].key)
                        \in {GET, POST, PUT, DELETE, PATCH}
                    => \E e \in 1..Len(ret.endpoints) :
                          /\ ret.endpoints[e].path = args.openapi_spec.paths[i].path
                          /\ ret.endpoints[e].method
                               = UpperStr(args.openapi_spec.paths[i].methods[j].key)

====
